---- MODULE Spec2Model ----
(***************************************************************************)
(* Model of the e-mail aggregation engine of Gmail-Email-Cleaner           *)
(* (src/src/aggregator.py, with the parts of src/src/gmail_client.py it    *)
(* calls).                                                                 *)
(*                                                                         *)
(* Encoding conventions                                                    *)
(*   - A Python dict is an insertion-ordered sequence of [k, v] records    *)
(*     (Python dicts keep insertion order; overwriting a key keeps its     *)
(*     position).                                                          *)
(*   - An Optional value / a possibly empty string or dict is a sequence   *)
(*     of length 0 (None, '', {}) or 1.                                    *)
(*   - SenderAggregation objects are mutable and shared by reference: they *)
(*     live in an arena (a sequence of records) and are named by their     *)
(*     index in it.                                                        *)
(*   - A From address is kept as the sequence of its '@'-separated parts,  *)
(*     a netloc as the sequence of its ':'-separated parts.                *)
(***************************************************************************)
EXTENDS Integers, Sequences, FiniteSets, TLC

VARIABLES
    accounts,       \* GmailAccountManager.accounts: the connected account ids
    aggregations,   \* EmailAggregator.aggregations: dict account_id -> AccountAggregation
    scan,           \* per thread: the frame of its aggregate_account call
    parsed,         \* history: per account, the (id, email, size) of every message
                    \* the last completed scan parsed, in id-list order
    heap,           \* free-standing SenderAggregation objects (object-level runs)
    dom,            \* a free-standing DomainAggregation (object-level runs)
    adds,           \* number of add_sender calls made on dom
    answer,         \* the last query made of the aggregator and what it returned
    all,            \* the frame of an aggregate_all_accounts call
    fetch,          \* the frame of a get_messages_batch call
    scan_progress,  \* app.py scan_progress: dict scan_id -> status record
    window          \* the desktop MainWindow: its scan control and scan worker

vars == <<accounts, aggregations, scan, parsed, heap, dom, adds, answer, all,
          fetch, scan_progress, window>>

(***************************** bounds **************************************)
\* messages in the first account's mailbox (the second holds one fewer)
MailboxSize == 3
\* free-standing sender objects, add_email calls over all of them, add_sender calls
MaxObjs == 2
MaxEmails == 3
MaxAdds == 2
\* largest limit handed to the ranked queries
MaxLimit == 3

(***************************** dicts ***************************************)
Keys(d) == {d[i].k : i \in DOMAIN d}

Has(d, key) == \E i \in DOMAIN d : d[i].k = key

Get(d, key) == d[CHOOSE i \in DOMAIN d : d[i].k = key].v

Put(d, key, val) ==
    IF Has(d, key)
    THEN [i \in DOMAIN d |-> IF d[i].k = key THEN [k |-> key, v |-> val] ELSE d[i]]
    ELSE Append(d, [k |-> key, v |-> val])

Values(d) == [i \in DOMAIN d |-> d[i].v]

Min(a, b) == IF a < b THEN a ELSE b

RECURSIVE SumSeq(_)
SumSeq(s) == IF s = <<>> THEN 0 ELSE Head(s) + SumSeq(Tail(s))

RECURSIVE Flatten(_)
Flatten(ss) == IF ss = <<>> THEN <<>> ELSE Head(ss) \o Flatten(Tail(ss))

(***************************** strings *************************************)
\* str.lower() on the strings the mailboxes use
Lower(s) ==
    CASE s = "A" -> "a"
      [] s = "X.com" -> "x.com"
      [] s = "FROM" -> "from"
      [] s = "From" -> "from"
      [] s = "Subject" -> "subject"
      [] s = "Date" -> "date"
      [] s = "List-Unsubscribe" -> "list-unsubscribe"
      [] s = "LOCALHOST" -> "localhost"
      [] s = "HTTPS" -> "https"
      [] OTHER -> s

LowerAll(parts) == [i \in DOMAIN parts |-> Lower(parts[i])]

(***************************** age categories ******************************)
AGE_CATEGORIES == <<
    [key |-> "today",   inf |-> FALSE, max_days |-> 1],
    [key |-> "week",    inf |-> FALSE, max_days |-> 7],
    [key |-> "month",   inf |-> FALSE, max_days |-> 30],
    [key |-> "3months", inf |-> FALSE, max_days |-> 90],
    [key |-> "6months", inf |-> FALSE, max_days |-> 180],
    [key |-> "year",    inf |-> FALSE, max_days |-> 365],
    [key |-> "older",   inf |-> TRUE,  max_days |-> 0] >>

AgeKeys == {AGE_CATEGORIES[i].key : i \in DOMAIN AGE_CATEGORIES}

\* A Date header value is <<[ok, days]>>: ok says whether some format parses it,
\* days is (now - date).days; '' is <<>>.
parse_email_date(date_str) ==
    IF date_str = <<>> THEN <<>>
    ELSE IF date_str[1].ok THEN <<date_str[1].days>> ELSE <<>>

\* the classifier with inclusive thresholds
get_age_category_inclusive(email_date) ==
    IF email_date = <<>> THEN "older"
    ELSE LET days_old == email_date[1]
             hits == {i \in DOMAIN AGE_CATEGORIES :
                         AGE_CATEGORIES[i].inf \/ days_old <= AGE_CATEGORIES[i].max_days}
         IN AGE_CATEGORIES[CHOOSE i \in hits : \A j \in hits : i <= j].key

get_age_category(email_date) ==
    IF email_date = <<>> THEN "older"
    ELSE LET days_old == email_date[1]
             hits == {i \in DOMAIN AGE_CATEGORIES :
                         AGE_CATEGORIES[i].inf \/ days_old < AGE_CATEGORIES[i].max_days}
         IN IF hits = {} THEN "older"
            ELSE AGE_CATEGORIES[CHOOSE i \in hits : \A j \in hits : i <= j].key

create_age_distribution == [c \in AgeKeys |-> 0]

(***************************** unsubscribe links ***************************)
\* A URL is [scheme, netloc, rest, bracketed]: scheme as written, netloc as its
\* ':'-separated parts (<<"">> when empty), rest whether any text follows
\* "scheme://", bracketed whether the header gives it as <...>.
\* urlparse lower-cases the scheme, and raises ValueError when the netloc holds
\* one of '[' and ']' without the other.
urlparse(url) ==
    LET opens == \E i \in DOMAIN url.netloc : url.netloc[i] = "["
        closes == \E i \in DOMAIN url.netloc : url.netloc[i] = "1]"
    IN [ok |-> (opens <=> closes), scheme |-> Lower(url.scheme), netloc |-> url.netloc]

\* the validator with its block-list of schemes only
validate_unsubscribe_url_blocklist(url) ==
    IF url = <<>> THEN <<>>
    ELSE LET parts == urlparse(url[1])
             host == Lower(parts.netloc[1])
         IN IF ~parts.ok THEN <<>>
            ELSE IF Lower(parts.scheme) \in {"javascript", "data", "vbscript"} THEN <<>>
            ELSE IF parts.scheme \in {"http", "https"} /\ parts.netloc = <<"">> THEN <<>>
            ELSE IF parts.scheme \in {"http", "https"}
                    /\ host \in {"localhost", "127.0.0.1", "0.0.0.0", "::1"} THEN <<>>
            ELSE url

validate_unsubscribe_url(url) ==
    IF url = <<>> THEN <<>>
    ELSE LET parts == urlparse(url[1])
             scheme == parts.scheme
             netloc == parts.netloc
             host == Lower(netloc[1])
         IN IF ~parts.ok THEN <<>>
            ELSE IF scheme \notin {"http", "https", "mailto"} THEN <<>>
            ELSE IF Lower(scheme) \in {"javascript", "data", "vbscript"} THEN <<>>
            ELSE IF scheme \in {"http", "https"} /\ netloc = <<"">> THEN <<>>
            ELSE IF scheme \in {"http", "https"}
                    /\ host \in {"localhost", "127.0.0.1", "0.0.0.0", "::1"} THEN <<>>
            ELSE url

\* re.findall(r'<(https?://[^>]+)>', header): the bracketed entries of the header
\* whose text starts with a lower-case http:// or https:// and has something after it
FindUrls(unsubscribe) ==
    SelectSeq(unsubscribe,
              LAMBDA u : u.bracketed /\ u.scheme \in {"http", "https"} /\ u.rest)

(***************************** sender identity *****************************)
\* parseaddr(from_header): a From header value is <<[name, parts]>>, parts the
\* '@'-separated pieces of the address; '' parses to ('', '').
parseaddr(from_header) ==
    IF from_header = <<>> THEN [name |-> "", parts |-> <<"">>]
    ELSE [name |-> from_header[1].name, parts |-> from_header[1].parts]

extract_sender_info(from_header) ==
    LET p == parseaddr(from_header)
        email == LowerAll(p.parts)
        hasAt == Len(email) >= 2
        domain == IF hasAt THEN email[2] ELSE ""
        name == IF p.name # "" THEN p.name ELSE email[1]
    IN [name |-> name, email |-> email, domain |-> domain]

get_header_value(headers, name) ==
    LET hits == {i \in DOMAIN headers : Lower(headers[i].name) = Lower(name)}
    IN IF hits = {} THEN <<>>
       ELSE headers[CHOOSE i \in hits : \A j \in hits : i <= j].value

(***************************** records *************************************)
EmailInfo(message_id, subject, date, snippet, size, unsubscribe_link, age_category) ==
    [message_id |-> message_id, subject |-> subject, date |-> date,
     snippet |-> snippet, size |-> size,
     unsubscribe_link |-> unsubscribe_link, age_category |-> age_category]

SenderAggregation(email, name, domain) ==
    [email |-> email, name |-> name, domain |-> domain,
     count |-> 0, total_size |-> 0, emails |-> <<>>,
     unsubscribe_link |-> <<>>,
     age_distribution |-> create_age_distribution]

\* add_email without the histogram update
add_email_no_bucket(self, email_info) ==
    [self EXCEPT
        !.count = @ + 1,
        !.total_size = @ + email_info.size,
        !.emails = Append(@, email_info),
        !.unsubscribe_link = IF email_info.unsubscribe_link # <<>>
                             THEN email_info.unsubscribe_link ELSE @]

\* add_email putting the message at the front of the list
add_email_prepend(self, email_info) ==
    [self EXCEPT
        !.count = @ + 1,
        !.total_size = @ + email_info.size,
        !.emails = <<email_info>> \o @,
        !.age_distribution[email_info.age_category] = @ + 1,
        !.unsubscribe_link = IF email_info.unsubscribe_link # <<>>
                             THEN email_info.unsubscribe_link ELSE @]

\* add_email storing the message's link whether or not it carries one
add_email_overwrite_link(self, email_info) ==
    [self EXCEPT
        !.count = @ + 1,
        !.total_size = @ + email_info.size,
        !.emails = Append(@, email_info),
        !.age_distribution[email_info.age_category] = @ + 1,
        !.unsubscribe_link = email_info.unsubscribe_link]

add_email(self, email_info) ==
    [self EXCEPT
        !.count = @ + 1,
        !.total_size = @ + email_info.size,
        !.emails = Append(@, email_info),
        !.age_distribution[email_info.age_category] = @ + 1,
        !.unsubscribe_link = IF email_info.unsubscribe_link # <<>>
                             THEN email_info.unsubscribe_link ELSE @]

\* senders: dict email -> reference (arena index) of a SenderAggregation
DomainAggregation(domain) ==
    [domain |-> domain, total_count |-> 0, total_size |-> 0,
     senders |-> <<>>, age_distribution |-> create_age_distribution]

\* add_sender that replaces the entry of an email already present instead of
\* merging into it
add_sender_replace(objs, self, ref) ==
    LET sender == objs[ref]
    IN [objs |-> objs,
        dom |-> [self EXCEPT
                    !.senders = Put(self.senders, sender.email, ref),
                    !.total_count = @ + sender.count,
                    !.total_size = @ + sender.total_size,
                    !.age_distribution =
                        [c \in AgeKeys |-> @[c] + sender.age_distribution[c]]]]

\* add_sender that stores a copy of a new sender instead of the record itself
add_sender_copy(objs, self, ref) ==
    LET sender == objs[ref]
        isNew == ~Has(self.senders, sender.email)
        existing == IF isNew THEN Len(objs) + 1 ELSE Get(self.senders, sender.email)
        objs0 == IF isNew THEN Append(objs, sender) ELSE objs
        merged == [objs0[existing] EXCEPT
                      !.count = @ + sender.count,
                      !.total_size = @ + sender.total_size,
                      !.emails = @ \o sender.emails,
                      !.age_distribution =
                          [c \in AgeKeys |-> @[c] + sender.age_distribution[c]],
                      !.unsubscribe_link = IF sender.unsubscribe_link # <<>>
                                           THEN sender.unsubscribe_link ELSE @]
        objs1 == IF isNew THEN objs0 ELSE [objs0 EXCEPT ![existing] = merged]
        senders1 == IF isNew THEN Put(self.senders, sender.email, existing)
                    ELSE self.senders
        sender1 == objs1[ref]
    IN [objs |-> objs1,
        dom |-> [self EXCEPT
                    !.senders = senders1,
                    !.total_count = @ + sender1.count,
                    !.total_size = @ + sender1.total_size,
                    !.age_distribution =
                        [c \in AgeKeys |-> @[c] + sender1.age_distribution[c]]]]

\* add_sender on domain `self` with the object `ref` of arena `objs`; yields the
\* arena and the domain after the call.  The statements run in the code's order:
\* the merge writes through `existing`, and the totals then read `sender` again,
\* which is the same object when the record is already the domain's entry.
add_sender(objs, self, ref) ==
    LET sender == objs[ref]
        isNew == ~Has(self.senders, sender.email)
        existing == IF isNew THEN ref ELSE Get(self.senders, sender.email)
        merged == [objs[existing] EXCEPT
                      !.count = @ + sender.count,
                      !.total_size = @ + sender.total_size,
                      !.emails = @ \o sender.emails,
                      !.age_distribution =
                          [c \in AgeKeys |-> @[c] + sender.age_distribution[c]],
                      !.unsubscribe_link = IF sender.unsubscribe_link # <<>>
                                           THEN sender.unsubscribe_link ELSE @]
        objs1 == IF isNew THEN objs ELSE [objs EXCEPT ![existing] = merged]
        senders1 == IF isNew THEN Put(self.senders, sender.email, ref)
                    ELSE self.senders
        sender1 == objs1[ref]
    IN [objs |-> objs1,
        dom |-> [self EXCEPT
                    !.senders = senders1,
                    !.total_count = @ + sender1.count,
                    !.total_size = @ + sender1.total_size,
                    !.age_distribution =
                        [c \in AgeKeys |-> @[c] + sender1.age_distribution[c]]]]

AccountAggregation(account_id, email_address) ==
    [account_id |-> account_id, email_address |-> email_address,
     total_emails |-> 0, total_size |-> 0,
     senders |-> <<>>, domains |-> <<>>,
     objs |-> <<>>]      \* the SenderAggregation objects its two maps refer to

(***************************** message record builder **********************)
\* the builder without its check for the empty placeholder: every field of an
\* empty detail takes its default
_process_message_details_no_check(message_id, details) ==
    LET headers == IF details = <<>> THEN <<>> ELSE details[1].payload.headers
        from_header == get_header_value(headers, "From")
        who == extract_sender_info(from_header)
        date == get_header_value(headers, "Date")
    IN <<[name |-> who.name, email |-> who.email, domain |-> who.domain,
          info |-> EmailInfo(message_id, get_header_value(headers, "Subject"), date,
                             IF details = <<>> THEN "" ELSE details[1].snippet,
                             IF details = <<>> THEN 0 ELSE details[1].sizeEstimate,
                             <<>>, get_age_category(parse_email_date(date)))]>>

\* the builder trying every bracketed URL until one passes the validator
_process_message_details_any_url(message_id, details) ==
    IF details = <<>> THEN <<>>
    ELSE LET headers == details[1].payload.headers
             date == get_header_value(headers, "Date")
             urls == FindUrls(get_header_value(headers, "List-Unsubscribe"))
             good == SelectSeq(urls, LAMBDA u : validate_unsubscribe_url(<<u>>) # <<>>)
             who == extract_sender_info(get_header_value(headers, "From"))
         IN <<[name |-> who.name, email |-> who.email, domain |-> who.domain,
               info |-> EmailInfo(message_id, get_header_value(headers, "Subject"),
                                  date, details[1].snippet, details[1].sizeEstimate,
                                  IF good = <<>> THEN <<>> ELSE <<good[1]>>,
                                  get_age_category(parse_email_date(date)))]>>

\* the builder giving no record for a message without a From header
_process_message_details_need_from(message_id, details) ==
    IF details = <<>> THEN <<>>
    ELSE IF get_header_value(details[1].payload.headers, "From") = <<>> THEN <<>>
    ELSE _process_message_details_any_url(message_id, details)

\* details is <<>> (the empty placeholder {}) or <<[payload, snippet, sizeEstimate]>>;
\* the result is <<>> (None) or <<[name, email, domain, info]>>.
_process_message_details(message_id, details) ==
    IF details = <<>> THEN <<>>
    ELSE LET headers == details[1].payload.headers
             from_header == get_header_value(headers, "From")
             subject == get_header_value(headers, "Subject")
             date == get_header_value(headers, "Date")
             snippet == details[1].snippet
             size == details[1].sizeEstimate
             unsubscribe == get_header_value(headers, "List-Unsubscribe")
             urls == FindUrls(unsubscribe)
             unsubscribe_link == IF unsubscribe # <<>> /\ urls # <<>>
                                 THEN validate_unsubscribe_url(<<urls[1]>>)
                                 ELSE <<>>
             who == extract_sender_info(from_header)
             parsed_date == parse_email_date(date)
             age_category == get_age_category(parsed_date)
         IN <<[name |-> who.name, email |-> who.email, domain |-> who.domain,
               info |-> EmailInfo(message_id, subject, date, snippet, size,
                                  unsubscribe_link, age_category)]>>

(***************************** the mail provider ***************************)
Hdr(n, v) == [name |-> n, value |-> v]

Url(scheme, netloc) ==
    [scheme |-> scheme, netloc |-> netloc, rest |-> TRUE, bracketed |-> TRUE]

Message(id, headers, size) ==
    [id |-> id,
     details |-> [payload |-> [headers |-> headers], snippet |-> "..",
                  sizeEstimate |-> size]]

\* What the provider holds for the two accounts, in listing order.
Inbox1 == <<
    Message("m1", <<Hdr("From", <<[name |-> "Bob", parts |-> <<"b", "y.com">>]>>),
                    Hdr("Subject", <<"hi">>),
                    Hdr("Date", <<[ok |-> TRUE, days |-> 0]>>),
                    Hdr("List-Unsubscribe", <<Url("https", <<"y.com">>)>>)>>, 2),
    Message("m2", <<Hdr("FROM", <<[name |-> "", parts |-> <<"A", "X.com">>]>>),
                    Hdr("Date", <<[ok |-> TRUE, days |-> 400]>>)>>, 1),
    Message("m3", <<Hdr("From", <<[name |-> "Al", parts |-> <<"a", "x.com">>]>>),
                    Hdr("Date", <<[ok |-> FALSE, days |-> 0]>>),
                    Hdr("List-Unsubscribe", <<Url("mailto", <<"">>),
                                              Url("http", <<"LOCALHOST", "8080">>)>>)>>, 3),
    Message("m4", <<Hdr("Subject", <<"no sender">>)>>, 1) >>

Inbox2 == <<
    Message("n1", <<Hdr("From", <<[name |-> "", parts |-> <<"c", "x.com">>]>>),
                    Hdr("Date", <<[ok |-> TRUE, days |-> 5]>>)>>, 1),
    Message("n2", <<Hdr("From", <<[name |-> "Al", parts |-> <<"a", "x.com">>]>>),
                    Hdr("Date", <<[ok |-> TRUE, days |-> 40]>>),
                    Hdr("List-Unsubscribe", <<Url("https", <<"x.com">>)>>)>>, 2),
    Message("n3", <<Hdr("From", <<[name |-> "Bob", parts |-> <<"b", "y.com">>]>>)>>, 2) >>

\* the mailbox of an account connected later: messages that lack headers
Inbox3 == <<
    Message("h1", <<Hdr("Subject", <<"no sender">>)>>, 1),
    Message("h2", <<>>, 2),
    Message("h3", <<Hdr("From", <<[name |-> "", parts |-> <<"c", "x.com">>]>>)>>, 1) >>

Mailbox(account_id) ==
    CASE account_id = "acc1" -> SubSeq(Inbox1, 1, Min(MailboxSize, Len(Inbox1)))
      [] account_id = "acc2" -> SubSeq(Inbox2, 1, Min(MailboxSize - 1, Len(Inbox2)))
      [] account_id = "acc3" -> Inbox3
      [] OTHER -> <<>>

AccountIds == {"acc1", "acc2", "ghost"}

Threads == {"t1", "t2"}

\* aggregate_account's batch_size; the code's value is 100, scaled down so that
\* a mailbox of a few messages spans more than one batch
batch_size == 2

\* get_messages' largest page request; the code's value is 500, scaled down so
\* that a mailbox of a few messages spans more than one page
PageMax == 2

\* The frame of one aggregate_account call.  calls, log, nonempty, skipped,
\* list_calls, batch_calls and replaced are history fields: what the call has
\* done so far, not data the code holds.
IdleFrame ==
    [pc |-> "idle", account_id |-> "", err |-> "",
     aggregation |-> AccountAggregation("", ""),
     objs |-> <<>>, message_ids |-> <<>>, total |-> 0,
     i |-> 0, batch_ids |-> <<>>, batch_details |-> <<>>, j |-> 1,
     senders_data |-> <<>>, processed |-> 0,
     domains_data |-> <<>>, k |-> 1,
     calls |-> <<>>,        \* the progress callback's invocations, with the id being processed
     log |-> <<>>,          \* [id, email, size] of each message parsed, in order
     nonempty |-> 0,        \* details the batch fetches returned non-empty
     skipped |-> {},        \* ids whose detail came back as the empty placeholder
     list_calls |-> 0, batch_calls |-> 0,
     replaced |-> <<>>,     \* at publication: the total_emails of the entry replaced
     max_emails |-> <<>>,   \* the max_emails argument; <<>> is None
     page_token |-> 0,      \* get_messages' page_token; 0 is None
     gathered |-> <<>>,     \* get_messages' messages
     pages |-> <<>>,        \* history: every page request made and what came back
     http_failed |-> FALSE, \* history: a page request ended in HttpError
     requested |-> <<>>,    \* history: the ids of every batch fetch that returned
     details |-> <<>>,      \* history: the details those fetches returned, in order
     added |-> <<>>,        \* history: each add_sender call, and whether it merged
     concurrent |-> FALSE]  \* history: another scan was running when this one began

\* the frame of aggregate_all_accounts: the loop's position in the account
\* dict and its loop variable; invoked and cb are history fields
IdleAll ==
    [pc |-> "idle", idx |-> 0, account_id |-> "",
     size |-> 0,            \* the dict's size when the iteration began
     err |-> "",            \* the exception that left the call
     invoked |-> <<>>,      \* the ids aggregate_account was invoked with, in order
     cb |-> <<>>,           \* the caller's progress callback's invocations
     during |-> <<>>]       \* for each of them, the account whose scan made it

\* the frame of get_messages_batch; executions, outcomes and responded are
\* history fields
IdleFetch ==
    [pc |-> "idle", message_ids |-> <<>>, batch_size |-> 0, i |-> 0,
     batch_ids |-> <<>>, batch_results |-> <<>>, attempt |-> 0,
     all_results |-> <<>>, err |-> "",
     executions |-> <<>>,   \* per batch begun: how often batch.execute() was called
     outcomes |-> <<>>,     \* how each of those calls ended, in call order
     responded |-> {}]      \* the ids whose request got a response

\* the desktop window before any scan; clicks, started, emitted and handled are
\* history fields
IdleWindow ==
    [scan_btn |-> TRUE,     \* scan_btn.isEnabled()
     worker |-> "none",     \* scan_worker: none, running, or finished (signal queued)
     success |-> TRUE,      \* the queued finished signal's arguments
     message |-> "",
     shown |-> {},          \* the accounts whose senders the results table lists
     clicks |-> 0,          \* clicks on scan_btn
     started |-> 0,         \* workers started
     emitted |-> 0,         \* finished signals emitted
     handled |-> 0]         \* finished signals on_scan_finished has handled

NoAnswer == [op |-> "none", account_id |-> <<>>, limit |-> 0, key |-> <<>>, result |-> <<>>]

Init ==
    /\ accounts = {"acc1", "acc2"}
    /\ aggregations = <<>>
    /\ scan = [t \in Threads |-> IdleFrame]
    /\ parsed = [a \in AccountIds |-> <<>>]
    /\ heap = <<>>
    /\ dom = DomainAggregation("x.com")
    /\ adds = 0
    /\ answer = NoAnswer
    /\ all = IdleAll
    /\ fetch = IdleFetch
    /\ scan_progress = <<>>
    /\ window = IdleWindow

(***************************************************************************)
(* Object-level runs: SenderAggregation and DomainAggregation driven       *)
(* directly, as a caller of the two classes may.  Senders are filled by    *)
(* add_email first and handed to add_sender afterwards, the order          *)
(* aggregate_account uses.                                                 *)
(***************************************************************************)
\* the sender identities and message records the object-level runs draw from
Identities == {extract_sender_info(get_header_value(Inbox1[i].details.payload.headers, "From")) :
                  i \in 1..2}

Infos == {_process_message_details(Inbox1[i].id, <<Inbox1[i].details>>)[1].info : i \in 1..2}
         \cup {_process_message_details(Inbox2[2].id, <<Inbox2[2].details>>)[1].info}

EmailsHeld == SumSeq([i \in DOMAIN heap |-> heap[i].count])

NewSender(who) ==
    /\ adds = 0
    /\ Len(heap) < MaxObjs
    /\ heap' = Append(heap, SenderAggregation(who.email, who.name, who.domain))
    /\ UNCHANGED <<accounts, aggregations, scan, parsed, dom, adds, answer, all, fetch, scan_progress, window>>

AddEmail(ref, email_info) ==
    /\ adds = 0
    /\ EmailsHeld < MaxEmails
    /\ heap' = [heap EXCEPT ![ref] = add_email(@, email_info)]
    /\ UNCHANGED <<accounts, aggregations, scan, parsed, dom, adds, answer, all, fetch, scan_progress, window>>

AddSender(ref) ==
    /\ adds < MaxAdds
    /\ LET r == add_sender(heap, dom, ref)
       IN /\ heap' = r.objs
          /\ dom' = r.dom
    /\ adds' = adds + 1
    /\ UNCHANGED <<accounts, aggregations, scan, parsed, answer, all, fetch, scan_progress, window>>

NextAgg ==
    \/ \E who \in Identities : NewSender(who)
    \/ \E ref \in DOMAIN heap, email_info \in Infos : AddEmail(ref, email_info)
    \/ \E ref \in DOMAIN heap : AddSender(ref)

SpecAgg == Init /\ [][NextAgg]_vars

SumSizes(emails) == SumSeq([i \in DOMAIN emails |-> emails[i].size])

SumAges(dist) == SumSeq([i \in DOMAIN AGE_CATEGORIES |-> dist[AGE_CATEGORIES[i].key]])

SenderConsistent(s) ==
    /\ s.count = Len(s.emails)
    /\ SumAges(s.age_distribution) = s.count
    /\ s.total_size = SumSizes(s.emails)

\* C1: after any sequence of add_email calls on a freshly created sender,
\* count = len(emails), the age buckets sum to count, and total_size is the
\* sum of the sizes of the messages held.
C1_SenderInvariant ==
    adds = 0 => \A ref \in DOMAIN heap : SenderConsistent(heap[ref])

C1_Witness ==
    /\ adds = 0
    /\ \E ref \in DOMAIN heap :
          /\ heap[ref].count = MaxEmails
          /\ heap[ref].total_size > heap[ref].count
          /\ \E c \in AgeKeys : heap[ref].age_distribution[c] = 1

\* the members of a domain, dereferenced
Members(objs, d) == [i \in DOMAIN d.senders |-> objs[d.senders[i].v]]

DomainTotalsMatch(objs, d) ==
    LET m == Members(objs, d)
    IN /\ d.total_count = SumSeq([i \in DOMAIN m |-> m[i].count])
       /\ d.total_size = SumSeq([i \in DOMAIN m |-> m[i].total_size])
       /\ \A c \in AgeKeys :
             d.age_distribution[c] = SumSeq([i \in DOMAIN m |-> m[i].age_distribution[c]])

\* C2: after any sequence of add_sender calls (a sender whose email is already
\* present, or the very same record twice, included) the domain's total_count,
\* total_size and age buckets equal the sums over its current members.
C2_DomainTotalsMatchMembers == DomainTotalsMatch(heap, dom)

\* C11: add_sender puts a sender whose email the domain does not hold yet into
\* the sender map by reference, leaving every record as it is; for an email
\* already present it merges into the existing entry: that entry's count and
\* total_size become the sums of the two, its message list the existing
\* messages followed by the incoming ones, each age bucket the sum of the two
\* buckets, and the sender map keeps its entries.
C11_AddSenderInsertsOrMerges ==
    [][adds' = adds + 1 =>
        \E ref \in DOMAIN heap :
            LET sender == heap[ref]
            IN IF ~Has(dom.senders, sender.email)
               THEN /\ heap' = heap
                    /\ dom'.senders = Append(dom.senders, [k |-> sender.email, v |-> ref])
               ELSE LET e == Get(dom.senders, sender.email)
                    IN /\ dom'.senders = dom.senders
                       /\ Len(heap') = Len(heap)
                       /\ heap'[e].count = heap[e].count + sender.count
                       /\ heap'[e].total_size = heap[e].total_size + sender.total_size
                       /\ heap'[e].emails = heap[e].emails \o sender.emails
                       /\ \A c \in AgeKeys :
                             heap'[e].age_distribution[c] =
                                 heap[e].age_distribution[c] + sender.age_distribution[c]
                       /\ \A o \in DOMAIN heap \ {e} : heap'[o] = heap[o]]_vars

\* two records of one email: the second was merged into the first's entry
C11_Witness ==
    /\ Len(dom.senders) = 1
    /\ \E e, o \in DOMAIN heap :
          /\ e # o
          /\ heap[e].email = heap[o].email
          /\ dom.senders[1].v = e
          /\ heap[o].count >= 1
          /\ heap[e].count > heap[o].count
          /\ heap[e].count = Len(heap[e].emails)
          /\ SubSeq(heap[e].emails, heap[e].count - heap[o].count + 1, heap[e].count)
                = heap[o].emails

\* the messages of a sender that carried an unsubscribe link
Linked(emails) == SelectSeq(emails, LAMBDA m : m.unsubscribe_link # <<>>)

\* C12: after any sequence of add_email calls a sender's unsubscribe_link is
\* the link of the last message added that carried one, and is absent exactly
\* when no message added carried one; a later message without a link never
\* clears it.
C12_LastLinkWins ==
    adds = 0 =>
        \A ref \in DOMAIN heap :
            LET l == Linked(heap[ref].emails)
            IN heap[ref].unsubscribe_link =
                   IF l = <<>> THEN <<>> ELSE l[Len(l)].unsubscribe_link

\* two messages with different links, then one without: the second link stays
C12_Witness ==
    /\ adds = 0
    /\ \E ref \in DOMAIN heap :
          LET m == heap[ref].emails
          IN /\ Len(m) = 3
             /\ m[1].unsubscribe_link # <<>>
             /\ m[2].unsubscribe_link # <<>>
             /\ m[2].unsubscribe_link # m[1].unsubscribe_link
             /\ m[3].unsubscribe_link = <<>>
             /\ heap[ref].unsubscribe_link = m[2].unsubscribe_link

(***************************************************************************)
(* aggregate_account, one action per step of its body.                     *)
(***************************************************************************)
\* GmailClient of a connected account; email_address may be None
Client(account_id) ==
    [account_id |-> account_id,
     email_address |-> IF account_id = "acc1" THEN <<"me@gmail.com">> ELSE <<>>]

\* get_account handing out a client for any id
get_account_any(account_id) == <<Client(account_id)>>

\* GmailAccountManager.get_account: self.accounts.get(account_id)
get_account(account_id) ==
    IF account_id \in accounts THEN <<Client(account_id)>> ELSE <<>>

\* client.get_messages: the ids of some of the mailbox's messages, in mailbox
\* order (the query filters, max_results and a failed page cut the list short)
Listings(account_id) ==
    LET box == Mailbox(account_id)
        Pick(S) == SelectSeq([n \in DOMAIN box |-> [n |-> n, id |-> box[n].id]],
                             LAMBDA e : e.n \in S)
    IN {[n \in DOMAIN Pick(S) |-> Pick(S)[n].id] : S \in SUBSET DOMAIN box}

DetailOf(account_id, msg_id) ==
    LET box == Mailbox(account_id)
    IN box[CHOOSE n \in DOMAIN box : box[n].id = msg_id].details

\* client.get_messages_batch: one entry per requested id, each the message's
\* detail or the empty placeholder
BatchResults(account_id, ids) ==
    {[n \in DOMAIN ids |-> IF n \in S THEN <<DetailOf(account_id, ids[n])>> ELSE <<>>] :
        S \in SUBSET DOMAIN ids}

\* lines 312-319: look the account up, create the AccountAggregation
Enter(t, account_id, max_emails) ==
    /\ scan[t].pc = "idle"
    /\ LET client == get_account(account_id)
       IN IF client = <<>>
          THEN scan' = [scan EXCEPT ![t] =
                           [IdleFrame EXCEPT !.pc = "raised", !.account_id = account_id,
                                             !.max_emails = max_emails,
                                             !.err = "ValueError"]]
          ELSE scan' = [scan EXCEPT ![t] =
                           [IdleFrame EXCEPT
                               !.pc = "list", !.account_id = account_id,
                               !.max_emails = max_emails,
                               !.concurrent =
                                   \E u \in Threads \ {t} :
                                      scan[u].pc \notin {"idle", "done", "raised"},
                               !.aggregation =
                                   AccountAggregation(account_id,
                                       IF client[1].email_address # <<>>
                                       THEN client[1].email_address[1]
                                       ELSE account_id)]]
    /\ answer' = NoAnswer
    /\ UNCHANGED <<accounts, aggregations, parsed, heap, dom, adds, fetch, scan_progress, window>>

\* aggregate_account(account_id) with max_emails left at None
Call(t, account_id) == Enter(t, account_id, <<>>) /\ UNCHANGED <<all, fetch, scan_progress, window>>

\* the sender map carried over from the account's stored aggregation
senders_data_kept(account_id) ==
    IF Has(aggregations, account_id)
    THEN [senders_data |-> Get(aggregations, account_id).senders,
          objs |-> Get(aggregations, account_id).objs]
    ELSE [senders_data |-> <<>>, objs |-> <<>>]

\* one sender map for the whole aggregator: a scan starts from what a scan
\* under way has gathered
senders_data_shared(account_id) ==
    LET busy == {u \in Threads : scan[u].pc \in {"batch", "msg"} /\ scan[u].objs # <<>>}
    IN IF busy = {} THEN [senders_data |-> <<>>, objs |-> <<>>]
       ELSE LET u == CHOOSE x \in busy : TRUE
            IN [senders_data |-> scan[u].senders_data, objs |-> scan[u].objs]

\* lines 327-329: the scan's own sender map and counters
senders_data_init(account_id) == [senders_data |-> <<>>, objs |-> <<>>]

\* lines 322-329: get_messages has returned `messages`
listed(f, messages) ==
    LET fresh == senders_data_init(f.account_id)
    IN [f EXCEPT !.pc = "batch", !.message_ids = messages,
                 !.total = Len(messages),
                 !.senders_data = fresh.senders_data,
                 !.objs = fresh.objs,
                 !.processed = 0, !.i = 0,
                 !.list_calls = @ + 1]

\* lines 321-329: list the ids, get_messages taken as one step
List(t) ==
    /\ scan[t].pc = "list"
    /\ scan[t].account_id \in accounts      \* gmail_client.py:182, the client has its service
    /\ \E messages \in Listings(scan[t].account_id) :
          scan' = [scan EXCEPT ![t] = listed(@, messages)]
    /\ UNCHANGED <<accounts, aggregations, parsed, heap, dom, adds, answer, all, fetch, scan_progress, window>>

\* the size of a page request taken from max_results alone, the ids already
\* gathered left out
request_size_no_count(max_results, n) ==
    IF max_results = <<>> THEN <<PageMax>>
    ELSE IF max_results[1] <= 0 THEN <<>> ELSE <<Min(PageMax, max_results[1])>>

\* gmail_client.py lines 192-198: the size of the next page request when n ids
\* have been gathered; <<>> when the loop breaks because none remain to ask for
request_size(max_results, n) ==
    IF max_results = <<>> THEN <<PageMax>>
    ELSE LET remaining == max_results[1] - n
         IN IF remaining <= 0 THEN <<>> ELSE <<Min(PageMax, remaining)>>

\* messages.list(maxResults, pageToken): a page of at least one and at most
\* maxResults of the ids that follow pageToken, and a nextPageToken when ids
\* remain after it; an empty page without token when none follow
Pages(account_id, maxResults, pageToken) ==
    LET box == Mailbox(account_id)
        left == Len(box) - pageToken
    IN IF left = 0
       THEN {[messages |-> <<>>, nextPageToken |-> 0]}
       ELSE {[messages |-> [n \in 1..k |-> box[pageToken + n].id],
              nextPageToken |-> IF pageToken + k < Len(box) THEN pageToken + k ELSE 0] :
                 k \in 1..Min(maxResults, left)}

\* the ids of the pages gathered thrown away when a page request fails
on_http_error_drop(f) == <<>>

\* gmail_client.py lines 215-219: HttpError ends the loop, messages is returned
on_http_error(f) == f.gathered

\* gmail_client.py lines 189-213: one iteration of get_messages' loop; the
\* call returns when the loop breaks
ListPage(t) ==
    /\ scan[t].pc = "list"
    /\ LET f == scan[t]
           size == request_size(f.max_emails, Len(f.gathered))
       IN IF size = <<>>
          THEN scan' = [scan EXCEPT ![t] = listed(f, f.gathered)]
          ELSE \E page \in Pages(f.account_id, size[1], f.page_token) :
                  LET f1 == [f EXCEPT
                                !.gathered = @ \o page.messages,
                                !.page_token = page.nextPageToken,
                                !.pages = Append(@, [maxResults |-> size[1],
                                                     before |-> Len(f.gathered),
                                                     messages |-> page.messages,
                                                     nextPageToken |-> page.nextPageToken])]
                  IN scan' = [scan EXCEPT ![t] =
                                 IF page.nextPageToken = 0 THEN listed(f1, f1.gathered)
                                 ELSE f1]
    /\ UNCHANGED <<accounts, aggregations, parsed, heap, dom, adds, answer, all, fetch, scan_progress, window>>

\* gmail_client.py lines 200-205 and 215-219: the page request ends in HttpError
ListHttpError(t) ==
    /\ scan[t].pc = "list"
    /\ request_size(scan[t].max_emails, Len(scan[t].gathered)) # <<>>
    /\ scan' = [scan EXCEPT ![t] =
                   listed([scan[t] EXCEPT !.http_failed = TRUE], on_http_error(scan[t]))]
    /\ UNCHANGED <<accounts, aggregations, parsed, heap, dom, adds, answer, all, fetch, scan_progress, window>>

\* get_messages raises: RuntimeError when the client has been disconnected
\* (gmail_client.py:181), or an error other than HttpError escaping the request
ListRaises(t) ==
    /\ scan[t].pc = "list"
    /\ scan' = [scan EXCEPT ![t] = [@ EXCEPT !.pc = "raised", !.err = "Exception",
                                             !.list_calls = @ + 1]]
    /\ UNCHANGED <<accounts, aggregations, parsed, heap, dom, adds, answer, all, fetch, scan_progress, window>>

\* a slice one id too long, so that consecutive batches overlap
next_batch_overlap(f) ==
    SubSeq(f.message_ids, f.i + 1, Min(f.i + batch_size + 1, Len(f.message_ids)))

\* line 332: batch_ids = message_ids[i:i + batch_size]
next_batch(f) ==
    SubSeq(f.message_ids, f.i + 1, Min(f.i + batch_size, Len(f.message_ids)))

\* lines 331-335: the next batch, or the end of the batch loop (line 359)
FetchBatch(t) ==
    /\ scan[t].pc = "batch"
    /\ LET f == scan[t]
       IN IF f.i >= Len(f.message_ids)
          THEN scan' = [scan EXCEPT ![t] =
                           [@ EXCEPT !.pc = "build", !.domains_data = <<>>, !.k = 1]]
          ELSE LET batch_ids == next_batch(f)
               IN \E batch_details \in BatchResults(f.account_id, batch_ids) :
                     /\ f.account_id \in accounts   \* gmail_client.py:263
                     /\ scan' = [scan EXCEPT ![t] =
                                 [@ EXCEPT
                                     !.pc = "msg", !.batch_ids = batch_ids,
                                     !.batch_details = batch_details, !.j = 1,
                                     !.batch_calls = @ + 1,
                                     !.requested = Append(@, batch_ids),
                                     !.details = @ \o batch_details,
                                     !.nonempty = @ + Cardinality(
                                         {n \in DOMAIN batch_details : batch_details[n] # <<>>}),
                                     !.skipped = @ \cup
                                         {batch_ids[n] : n \in {m \in DOMAIN batch_details :
                                                                  batch_details[m] = <<>>}}]]
    /\ UNCHANGED <<accounts, aggregations, parsed, heap, dom, adds, answer, all, fetch, scan_progress, window>>

\* get_messages_batch raises RuntimeError: the client was disconnected while the
\* scan ran (gmail_client.py:260)
BatchRaises(t) ==
    /\ scan[t].pc = "batch"
    /\ scan[t].i < Len(scan[t].message_ids)
    /\ scan' = [scan EXCEPT ![t] = [@ EXCEPT !.pc = "raised", !.err = "RuntimeError",
                                             !.batch_calls = @ + 1]]
    /\ UNCHANGED <<accounts, aggregations, parsed, heap, dom, adds, answer, all, fetch, scan_progress, window>>

\* the callback invoked before the counter is advanced
report_progress_stale(f, msg_id) ==
    [f EXCEPT !.processed = @ + 1,
              !.calls = Append(@, [id |-> msg_id, processed |-> f.processed,
                                   total |-> f.total])]

\* lines 339-341: count the message and report progress
report_progress(f, msg_id) ==
    [f EXCEPT !.processed = @ + 1,
              !.calls = Append(@, [id |-> msg_id, processed |-> f.processed + 1,
                                   total |-> f.total])]

\* a fold that opens a new sender record for every message
fold_per_message(f, r) ==
    LET objs1 == Append(f.objs, SenderAggregation(r.email, r.name, r.domain))
        ref == Len(objs1)
    IN [f EXCEPT !.senders_data = Put(@, <<r.info.message_id>> \o r.email, ref),
                 !.objs = [objs1 EXCEPT ![ref] = add_email(@, r.info)],
                 !.log = Append(@, [id |-> r.info.message_id, email |-> r.email,
                                    size |-> r.info.size])]

\* lines 347-356: fold one parsed message into the scan's sender map
fold(f, r) ==
    LET isNew == ~Has(f.senders_data, r.email)
        objs1 == IF isNew THEN Append(f.objs, SenderAggregation(r.email, r.name, r.domain))
                 ELSE f.objs
        sd1 == IF isNew THEN Put(f.senders_data, r.email, Len(objs1)) ELSE f.senders_data
        ref == Get(sd1, r.email)
    IN [f EXCEPT !.senders_data = sd1,
                 !.objs = [objs1 EXCEPT ![ref] = add_email(@, r.info)],
                 !.log = Append(@, [id |-> r.info.message_id, email |-> r.email,
                                    size |-> r.info.size])]

\* the loop over the batch stopping one message short
batch_done_early(f) == f.j >= Min(Len(f.batch_ids), Len(f.batch_details))

\* line 338: zip(batch_ids, batch_details) has run out
batch_done(f) == f.j > Min(Len(f.batch_ids), Len(f.batch_details))

\* lines 338-356: one iteration of the loop over zip(batch_ids, batch_details)
ProcessMessageIn(t) ==
    /\ scan[t].pc = "msg"
    /\ LET f == scan[t]
       IN IF batch_done(f)
          THEN scan' = [scan EXCEPT ![t] = [@ EXCEPT !.pc = "batch", !.i = @ + batch_size]]
          ELSE LET msg_id == f.batch_ids[f.j]
                   details == f.batch_details[f.j]
                   f1 == report_progress(f, msg_id)
                   result == _process_message_details(msg_id, details)
                   f2 == IF result = <<>> THEN f1 ELSE fold(f1, result[1])
               IN scan' = [scan EXCEPT ![t] = [f2 EXCEPT !.j = @ + 1]]
    /\ UNCHANGED <<accounts, aggregations, parsed, heap, dom, adds, answer, fetch, window>>

\* the same, called with a progress callback that keeps no state of its own
ProcessMessage(t) == ProcessMessageIn(t) /\ UNCHANGED <<all, scan_progress>>

\* the domain build stopping one sender short
build_done_early(f) == f.k >= Len(f.senders_data)

\* line 361: the loop over senders_data.values() has run out
build_done(f) == f.k > Len(f.senders_data)

\* lines 361-369: one iteration of the domain build
build_one(f) ==
    LET ref == f.senders_data[f.k].v
        sender == f.objs[ref]
        dd1 == IF Has(f.domains_data, sender.domain) THEN f.domains_data
               ELSE Put(f.domains_data, sender.domain, DomainAggregation(sender.domain))
        r == add_sender(f.objs, Get(dd1, sender.domain), ref)
    IN [f EXCEPT
           !.aggregation.senders = Put(@, sender.email, ref),
           !.aggregation.total_emails = @ + sender.count,
           !.aggregation.total_size = @ + sender.total_size,
           !.domains_data = Put(dd1, sender.domain, r.dom),
           !.objs = r.objs,
           !.added = Append(@, [email |-> sender.email,
                                merged |-> Has(Get(dd1, sender.domain).senders,
                                               sender.email)]),
           !.k = @ + 1]

\* lines 361-370: one iteration of the domain build, or its end
Build(t) ==
    /\ scan[t].pc = "build"
    /\ LET f == scan[t]
       IN IF build_done(f)
          THEN scan' = [scan EXCEPT ![t] =
                           [@ EXCEPT !.pc = "publish",
                                     !.aggregation.domains = f.domains_data]]
          ELSE scan' = [scan EXCEPT ![t] = build_one(f)]
    /\ UNCHANGED <<accounts, aggregations, parsed, heap, dom, adds, answer, all, fetch, scan_progress, window>>

\* an assignment that keeps the entry an earlier scan stored
publish_first(store, account_id, aggregation) ==
    IF Has(store, account_id) THEN store ELSE Put(store, account_id, aggregation)

\* line 371: self.aggregations[account_id] = aggregation
publish(store, account_id, aggregation) == Put(store, account_id, aggregation)

\* line 371
Publish(t) ==
    /\ scan[t].pc = "publish"
    /\ LET f == scan[t]
       IN /\ aggregations' = publish(aggregations, f.account_id,
                                     [f.aggregation EXCEPT !.objs = f.objs])
          /\ parsed' = [parsed EXCEPT ![f.account_id] = f.log]
          /\ scan' = [scan EXCEPT ![t] =
                         [@ EXCEPT !.pc = "done",
                                   !.replaced = IF Has(aggregations, f.account_id)
                                                THEN <<Get(aggregations, f.account_id).total_emails>>
                                                ELSE <<>>]]
    /\ UNCHANGED <<accounts, heap, dom, adds, answer, all, fetch, scan_progress, window>>

\* line 373, or the exception leaving the call
Return(t) ==
    /\ scan[t].pc \in {"done", "raised"}
    /\ scan' = [scan EXCEPT ![t] = IdleFrame]
    /\ UNCHANGED <<accounts, aggregations, parsed, heap, dom, adds, answer, all, fetch, scan_progress, window>>

Step(t) ==
    \/ \E account_id \in AccountIds : Call(t, account_id)
    \/ List(t)
    \/ ListRaises(t)
    \/ FetchBatch(t)
    \/ BatchRaises(t)
    \/ ProcessMessage(t)
    \/ Build(t)
    \/ Publish(t)
    \/ Return(t)

(***************************************************************************)
(* aggregate_all_accounts, run once by one thread.                         *)
(***************************************************************************)
\* self.account_manager.accounts in the dict's order
AccountOrder ==
    SelectSeq(<<"acc1", "acc2", "ghost">>, LAMBDA a : a \in accounts)

\* a callback wrapper bound to the first account whatever the loop has reached
account_progress_first(frame, current, total) ==
    [frame EXCEPT !.cb = Append(@, [account_id |-> AccountOrder[1],
                                    current |-> current, total |-> total])]

\* lines 393-395: account_progress hands the loop variable to the caller's callback
account_progress(frame, current, total) ==
    [frame EXCEPT !.cb = Append(@, [account_id |-> frame.account_id,
                                    current |-> current, total |-> total])]

\* the call is made
AllStart ==
    /\ all.pc = "idle"
    /\ all' = [IdleAll EXCEPT !.pc = "loop", !.idx = 1, !.size = Cardinality(accounts)]
    /\ UNCHANGED <<accounts, aggregations, scan, parsed, heap, dom, adds, answer, fetch, scan_progress, window>>

\* lines 392-402: the loop's next iteration calls aggregate_account
AllInvoke(t) ==
    /\ all.pc = "loop"
    /\ Cardinality(accounts) = all.size
    /\ all.idx <= Len(AccountOrder)
    /\ Enter(t, AccountOrder[all.idx], <<>>)
    /\ all' = [all EXCEPT !.account_id = AccountOrder[all.idx],
                           !.idx = @ + 1,
                           !.invoked = Append(@, AccountOrder[all.idx])]

\* lines 340-341 reaching lines 393-395: the scan's callback is the wrapper
AllProcessMessageIn(t) ==
    /\ all.pc = "loop"
    /\ ProcessMessageIn(t)
    /\ all' = IF Len(scan'[t].calls) > Len(scan[t].calls)
              THEN LET c == scan'[t].calls[Len(scan'[t].calls)]
                   IN [account_progress(all, c.processed, c.total) EXCEPT
                          !.during = Append(@, scan[t].account_id)]
              ELSE all

\* the same, called with a progress callback that keeps no state of its own
AllProcessMessage(t) == AllProcessMessageIn(t) /\ UNCHANGED scan_progress

\* aggregate_account returns (line 373) into the loop
AllReturn(t) ==
    /\ all.pc = "loop"
    /\ scan[t].pc = "done"
    /\ Return(t)

\* an exception leaving aggregate_account leaves aggregate_all_accounts too
AllRaise(t) ==
    /\ all.pc = "loop"
    /\ scan[t].pc = "raised"
    /\ scan' = [scan EXCEPT ![t] = IdleFrame]
    /\ all' = [all EXCEPT !.pc = "raised", !.err = scan[t].err]
    /\ UNCHANGED <<accounts, aggregations, parsed, heap, dom, adds, answer, fetch, scan_progress, window>>

\* line 404: the loop has run out
AllFinish(t) ==
    /\ all.pc = "loop"
    /\ scan[t].pc = "idle"
    /\ Cardinality(accounts) = all.size
    /\ all.idx > Len(AccountOrder)
    /\ all' = [all EXCEPT !.pc = "returned"]
    /\ UNCHANGED <<accounts, aggregations, scan, parsed, heap, dom, adds, answer, fetch, scan_progress, window>>

NextAll ==
    \/ AllStart
    \/ AllInvoke("t1")
    \/ List("t1")
    \/ ListRaises("t1")
    \/ FetchBatch("t1")
    \/ BatchRaises("t1")
    \/ AllProcessMessage("t1")
    \/ Build("t1")
    \/ Publish("t1")
    \/ AllReturn("t1")
    \/ AllRaise("t1")
    \/ AllFinish("t1")

SpecAll == Init /\ [][NextAll]_vars

(***************************************************************************)
(* Two scans started on one aggregator by two threads (app.py start_scan), *)
(* each run once and to its end, interleaved step by step.  The first      *)
(* thread scans either account, the second the second account, so that     *)
(* the two scan different accounts or the same one.                        *)
(***************************************************************************)
ConcAccounts(t) == IF t = "t1" THEN {"acc1", "acc2"} ELSE {"acc2"}

NextConc ==
    \E t \in Threads :
       \/ \E account_id \in ConcAccounts(t) : Call(t, account_id)
       \/ List(t)
       \/ FetchBatch(t)
       \/ ProcessMessage(t)
       \/ Build(t)
       \/ Publish(t)

SpecConc == Init /\ [][NextConc]_vars

(***************************************************************************)
(* One scan with get_messages run page by page, for each max_emails.       *)
(***************************************************************************)
\* the max_emails arguments: None, and the integers around the mailbox's size
MaxEmailsArgs == {<<>>} \cup {<<n>> : n \in (0 - 1)..(MailboxSize + 1)}

NextList ==
    \/ \E account_id \in accounts, max_emails \in MaxEmailsArgs :
          Enter("t1", account_id, max_emails) /\ UNCHANGED <<all, fetch, scan_progress, window>>
    \/ ListPage("t1")
    \/ ListHttpError("t1")
    \/ ListRaises("t1")
    \/ FetchBatch("t1")
    \/ BatchRaises("t1")
    \/ ProcessMessage("t1")
    \/ Build("t1")
    \/ Publish("t1")

\* the thread inside get_messages keeps running: its loop takes its next
\* iteration whenever it has one to take
SpecList == Init /\ [][NextList]_vars /\ WF_vars(ListPage("t1"))

(***************************************************************************)
(* The queries.                                                            *)
(***************************************************************************)
\* a descending sort that puts an entry before its equals
RECURSIVE InsertDescUnstable(_, _)
InsertDescUnstable(sorted, x) ==
    IF sorted = <<>> THEN <<x>>
    ELSE IF Head(sorted).key > x.key
         THEN <<Head(sorted)>> \o InsertDescUnstable(Tail(sorted), x)
         ELSE <<x>> \o sorted

\* list.sort(key=..., reverse=True) on entries [key, item]: stable, descending.
\* Insert x behind every entry whose key is not smaller.
RECURSIVE InsertDesc(_, _)
InsertDesc(sorted, x) ==
    IF sorted = <<>> THEN <<x>>
    ELSE IF Head(sorted).key >= x.key
         THEN <<Head(sorted)>> \o InsertDesc(Tail(sorted), x)
         ELSE <<x>> \o sorted

RECURSIVE SortDesc(_)
SortDesc(entries) ==
    IF entries = <<>> THEN <<>>
    ELSE InsertDesc(SortDesc(SubSeq(entries, 1, Len(entries) - 1)), entries[Len(entries)])

Items(entries) == [n \in DOMAIN entries |-> entries[n].item]

\* results[:limit] for a limit >= 0
Truncate(results, limit) == SubSeq(results, 1, Min(limit, Len(results)))

\* [account_id] if account_id else list(self.aggregations.keys())
QueryAccounts(account_id) ==
    IF account_id # <<>> /\ account_id[1] # "" THEN account_id
    ELSE [n \in DOMAIN aggregations |-> aggregations[n].k]

get_top_senders(account_id, limit) ==
    LET accs == QueryAccounts(account_id)
        PerAccount(acc_id) ==
            IF ~Has(aggregations, acc_id) THEN <<>>
            ELSE LET agg == Get(aggregations, acc_id)
                 IN [n \in DOMAIN agg.senders |->
                        LET sender == agg.objs[agg.senders[n].v]
                        IN [key |-> sender.count,
                            item |-> [acc |-> acc_id, sender |-> sender]]]
        results == Flatten([n \in DOMAIN accs |-> PerAccount(accs[n])])
    IN Truncate(Items(SortDesc(results)), limit)

get_top_domains(account_id, limit) ==
    LET accs == QueryAccounts(account_id)
        PerAccount(acc_id) ==
            IF ~Has(aggregations, acc_id) THEN <<>>
            ELSE LET agg == Get(aggregations, acc_id)
                 IN [n \in DOMAIN agg.domains |->
                        LET domain == agg.domains[n].v
                        IN [key |-> domain.total_count,
                            item |-> [acc |-> acc_id, domain |-> domain]]]
        results == Flatten([n \in DOMAIN accs |-> PerAccount(accs[n])])
    IN Truncate(Items(SortDesc(results)), limit)

MessageIds(emails) == [n \in DOMAIN emails |-> emails[n].message_id]

get_message_ids_for_sender(account_id, sender_email) ==
    IF ~Has(aggregations, account_id) THEN <<>>
    ELSE LET agg == Get(aggregations, account_id)
         IN IF ~Has(agg.senders, sender_email) THEN <<>>
            ELSE MessageIds(agg.objs[Get(agg.senders, sender_email)].emails)

\* the domain lookup returning after its first sender
get_message_ids_for_domain_first(account_id, domain) ==
    IF ~Has(aggregations, account_id) THEN <<>>
    ELSE LET agg == Get(aggregations, account_id)
         IN IF ~Has(agg.domains, domain) THEN <<>>
            ELSE LET members == Get(agg.domains, domain).senders
                 IN IF members = <<>> THEN <<>>
                    ELSE MessageIds(agg.objs[members[1].v].emails)

get_message_ids_for_domain(account_id, domain) ==
    IF ~Has(aggregations, account_id) THEN <<>>
    ELSE LET agg == Get(aggregations, account_id)
         IN IF ~Has(agg.domains, domain) THEN <<>>
            ELSE LET members == Get(agg.domains, domain).senders
                 IN Flatten([n \in DOMAIN members |->
                                MessageIds(agg.objs[members[n].v].emails)])

\* what a caller may pass
AccountArgs == {<<>>} \cup {<<a>> : a \in AccountIds}

EmailArgs == {<<"a", "x.com">>, <<"b", "y.com">>, <<"c", "x.com">>, <<"">>, <<"z", "q.com">>}

DomainArgs == {"x.com", "y.com", "", "q.com"}

\* The store does not change while a scan is between its steps (only line 371
\* writes it), so the queries are asked while no scan is running.  A query
\* changes nothing a later query reads, so one is recorded per quiet period.
Quiet == (\A t \in Threads : scan[t].pc = "idle") /\ answer = NoAnswer

TopSenders(account_id, limit) ==
    /\ Quiet
    /\ answer' = [op |-> "get_top_senders", account_id |-> account_id, limit |-> limit,
                  key |-> <<>>, result |-> get_top_senders(account_id, limit)]
    /\ UNCHANGED <<accounts, aggregations, scan, parsed, heap, dom, adds, all, fetch, scan_progress, window>>

TopDomains(account_id, limit) ==
    /\ Quiet
    /\ answer' = [op |-> "get_top_domains", account_id |-> account_id, limit |-> limit,
                  key |-> <<>>, result |-> get_top_domains(account_id, limit)]
    /\ UNCHANGED <<accounts, aggregations, scan, parsed, heap, dom, adds, all, fetch, scan_progress, window>>

IdsForSender(account_id, sender_email) ==
    /\ Quiet
    /\ answer' = [op |-> "get_message_ids_for_sender", account_id |-> <<account_id>>,
                  limit |-> 0, key |-> <<sender_email>>,
                  result |-> get_message_ids_for_sender(account_id, sender_email)]
    /\ UNCHANGED <<accounts, aggregations, scan, parsed, heap, dom, adds, all, fetch, scan_progress, window>>

IdsForDomain(account_id, domain) ==
    /\ Quiet
    /\ answer' = [op |-> "get_message_ids_for_domain", account_id |-> <<account_id>>,
                  limit |-> 0, key |-> <<domain>>,
                  result |-> get_message_ids_for_domain(account_id, domain)]
    /\ UNCHANGED <<accounts, aggregations, scan, parsed, heap, dom, adds, all, fetch, scan_progress, window>>

Query ==
    \/ \E account_id \in AccountArgs, limit \in 0..MaxLimit : TopSenders(account_id, limit)
    \/ \E account_id \in AccountArgs, limit \in 0..MaxLimit : TopDomains(account_id, limit)
    \/ \E account_id \in AccountIds, sender_email \in EmailArgs :
          IdsForSender(account_id, sender_email)
    \/ \E account_id \in AccountIds, domain \in DomainArgs : IdsForDomain(account_id, domain)

\* one scan at a time, queries in between
Next == Step("t1") \/ Query

Spec == Init /\ [][Next]_vars

(***************************************************************************)
(* Properties of aggregate_account and of the queries.                     *)
(***************************************************************************)
SenderRecords(agg) == [n \in DOMAIN agg.senders |-> agg.objs[agg.senders[n].v]]

DomainRecords(agg) == Values(agg.domains)

\* the message ids an aggregation holds, sender by sender
HeldIds(agg) ==
    Flatten([n \in DOMAIN agg.senders |-> MessageIds(SenderRecords(agg)[n].emails)])

SeqToSet(q) == {q[n] : n \in DOMAIN q}

\* an aggregation that holds the whole of frame f's scan: every listed id has
\* been processed, every parsed message sits with its sender, every sender sits
\* in the account's map and in its domain's, and the totals add up
Complete(agg, f) ==
    /\ f.processed = Len(f.message_ids)
    /\ agg.account_id = f.account_id
    /\ Len(HeldIds(agg)) = Len(f.log)
    /\ SeqToSet(HeldIds(agg)) = {f.log[n].id : n \in DOMAIN f.log}
    /\ Keys(agg.senders) = {f.log[n].email : n \in DOMAIN f.log}
    /\ agg.total_emails = Len(f.log)
    /\ Keys(agg.domains) = {SenderRecords(agg)[n].domain : n \in DOMAIN agg.senders}
    /\ \A n \in DOMAIN agg.senders :
          LET s == SenderRecords(agg)[n]
          IN /\ Has(Get(agg.domains, s.domain).senders, s.email)
             /\ Get(Get(agg.domains, s.domain).senders, s.email) = agg.senders[n].v
    /\ SumSeq([n \in DOMAIN agg.domains |-> agg.domains[n].v.total_count]) = Len(f.log)

\* C3: the store changes only in the step that ends a scan (line 371), the
\* entry written then is the only one that changes and it holds the whole scan;
\* every other step of a scan, an aborting one included, leaves each account's
\* entry as the last completed scan left it.
C3_PublishedOnlyWhenComplete ==
    [][aggregations' # aggregations =>
          \E t \in Threads :
             /\ scan[t].pc = "publish" /\ scan'[t].pc = "done"
             /\ Has(aggregations', scan[t].account_id)
             /\ Complete(Get(aggregations', scan[t].account_id), scan[t])
             /\ \A a \in AccountIds \ {scan[t].account_id} :
                   /\ Has(aggregations', a) <=> Has(aggregations, a)
                   /\ Has(aggregations, a) => Get(aggregations', a) = Get(aggregations, a)]_vars

\* a scan that aborted after folding messages, beside the account's earlier result
C3_Witness ==
    /\ scan["t1"].pc = "raised"
    /\ scan["t1"].err = "RuntimeError"
    /\ Len(scan["t1"].objs) >= 1
    /\ Has(aggregations, scan["t1"].account_id)
    /\ Get(aggregations, scan["t1"].account_id).total_emails = Len(Mailbox(scan["t1"].account_id))

\* C4: when batch fetches return the empty placeholder for some ids, the scan
\* ends without an error, those ids are in no sender and no domain, and
\* total_emails = number of non-empty details = sum of the sender counts = sum
\* of the domains' total_count.
C4_EmptyDetailsSkipped ==
    \A t \in Threads :
       /\ scan[t].pc = "raised" => scan[t].err \in {"ValueError", "Exception", "RuntimeError"}
       /\ scan[t].pc = "done" =>
             LET f == scan[t]
                 agg == Get(aggregations, f.account_id)
                 S == SenderRecords(agg)
                 D == DomainRecords(agg)
             IN /\ f.err = ""
                /\ agg.total_emails = f.nonempty
                /\ SumSeq([n \in DOMAIN S |-> S[n].count]) = f.nonempty
                /\ SumSeq([n \in DOMAIN D |-> D[n].total_count]) = f.nonempty
                /\ SeqToSet(HeldIds(agg)) \cap f.skipped = {}
                /\ \A n \in DOMAIN D :
                      SeqToSet(get_message_ids_for_domain(f.account_id, D[n].domain))
                          \cap f.skipped = {}

C4_Witness ==
    /\ scan["t1"].pc = "done"
    /\ Cardinality(scan["t1"].skipped) = 1
    /\ scan["t1"].nonempty = 2
    /\ Get(aggregations, scan["t1"].account_id).total_emails = 2

\* C5: a call for an account id the account manager does not know ends with
\* ValueError in its first step: no listing, no batch fetch, no progress
\* callback, and the store as it was.
C5_UnknownAccountNotFound ==
    [][\A t \in Threads :
          (scan[t].pc = "idle" /\ scan'[t].pc # "idle" /\ scan'[t].account_id \notin accounts)
          => /\ scan'[t].pc = "raised"
             /\ scan'[t].err = "ValueError"
             /\ scan'[t].list_calls = 0
             /\ scan'[t].batch_calls = 0
             /\ scan'[t].calls = <<>>
             /\ aggregations' = aggregations]_vars

C5_Witness ==
    /\ scan["t1"].pc = "raised"
    /\ scan["t1"].err = "ValueError"
    /\ scan["t1"].account_id = "ghost"
    /\ Len(aggregations) = 2

\* C6: the progress callback is invoked once per listed id, in id-list order
\* (skipped ids included), with (processed, total) = (1, n), (2, n), ..., (n, n)
\* where n is the number of listed ids.
C6_ProgressPerListedId ==
    \A t \in Threads :
       LET f == scan[t]
       IN /\ Len(f.calls) <= Len(f.message_ids)
          /\ \A n \in DOMAIN f.calls :
                f.calls[n] = [id |-> f.message_ids[n], processed |-> n,
                              total |-> Len(f.message_ids)]
          /\ f.pc \in {"build", "publish", "done"} => Len(f.calls) = Len(f.message_ids)

C6_Witness ==
    /\ scan["t1"].pc = "done"
    /\ Len(scan["t1"].calls) = 3
    /\ scan["t1"].calls[3].processed = scan["t1"].calls[3].total
    /\ scan["t1"].skipped # {}
    /\ scan["t1"].batch_calls = 2

\* the senders (domains) of one or all accounts in encounter order: account
\* order in the store, then insertion order within the account
Encounter(account_id, kind) ==
    LET accs == IF account_id # <<>> THEN account_id
                ELSE [n \in DOMAIN aggregations |-> aggregations[n].k]
        PerAccount(a) ==
            IF ~Has(aggregations, a) THEN <<>>
            ELSE LET agg == Get(aggregations, a)
                 IN IF kind = "senders"
                    THEN [n \in DOMAIN agg.senders |->
                             [acc |-> a, sender |-> SenderRecords(agg)[n]]]
                    ELSE [n \in DOMAIN agg.domains |->
                             [acc |-> a, domain |-> agg.domains[n].v]]
    IN Flatten([n \in DOMAIN accs |-> PerAccount(accs[n])])

CountOf(item, kind) == IF kind = "senders" THEN item.sender.count ELSE item.domain.total_count

\* res is the first `limit` entries of flat ranked by descending count, equal
\* counts in flat's order
Ranked(res, flat, limit, kind) ==
    LET Pos(x) == CHOOSE i \in DOMAIN flat : flat[i] = x
        Before(i, j) == \/ CountOf(flat[i], kind) > CountOf(flat[j], kind)
                        \/ CountOf(flat[i], kind) = CountOf(flat[j], kind) /\ i < j
    IN /\ Len(res) = Min(limit, Len(flat))
       /\ \A n \in DOMAIN res : \E i \in DOMAIN flat : flat[i] = res[n]
       /\ \A n, m \in DOMAIN res : n < m => Before(Pos(res[n]), Pos(res[m]))
       /\ \A i \in DOMAIN flat :
             (\A n \in DOMAIN res : res[n] # flat[i])
             => \A n \in DOMAIN res : Before(Pos(res[n]), i)

\* C7: get_top_senders and get_top_domains return, for one account or for all,
\* the entries in descending order of count (total_count), entries of equal
\* count in encounter order, cut to the first `limit` (limit >= 0).
C7_TopRanked ==
    /\ answer.op = "get_top_senders" =>
          Ranked(answer.result, Encounter(answer.account_id, "senders"), answer.limit, "senders")
    /\ answer.op = "get_top_domains" =>
          Ranked(answer.result, Encounter(answer.account_id, "domains"), answer.limit, "domains")

\* a ranking over both accounts that had to move an entry forward, keep a tie
\* in place and cut the list
C7_Witness ==
    /\ answer.op = "get_top_senders"
    /\ answer.account_id = <<>>
    /\ answer.limit = 3
    /\ LET flat == Encounter(<<>>, "senders")
       IN /\ Len(flat) = 4
          /\ flat[1].sender.count < flat[2].sender.count
          /\ flat[3].sender.count = flat[4].sender.count
          /\ answer.result = <<flat[2], flat[1], flat[3]>>

\* the ids the account's last completed scan parsed for the sender, in id-list order
ParsedIdsOf(account_id, sender_email) ==
    LET mine == SelectSeq(parsed[account_id], LAMBDA e : e.email = sender_email)
    IN [n \in DOMAIN mine |-> mine[n].id]

\* C8: get_message_ids_for_sender returns the empty list when the account has
\* no published aggregation or the sender is unknown in it, and otherwise the
\* ids of that sender's parsed messages in id-list order.
C8_IdsForSender ==
    answer.op = "get_message_ids_for_sender" =>
       LET a == answer.account_id[1]
           e == answer.key[1]
       IN IF ~Has(aggregations, a) \/ ~Has(Get(aggregations, a).senders, e)
          THEN answer.result = <<>>
          ELSE /\ answer.result = ParsedIdsOf(a, e)
               /\ answer.result # <<>>

C8_Witness ==
    /\ answer.op = "get_message_ids_for_sender"
    /\ answer.result = <<"m2", "m3">>
    /\ Len(aggregations) = 2

\* C9: get_message_ids_for_domain returns the empty list when the account or
\* the domain is unknown, and otherwise the concatenation over the domain's
\* senders of get_message_ids_for_sender; its length is the domain's total_count.
C9_IdsForDomain ==
    answer.op = "get_message_ids_for_domain" =>
       LET a == answer.account_id[1]
           d == answer.key[1]
       IN IF ~Has(aggregations, a) \/ ~Has(Get(aggregations, a).domains, d)
          THEN answer.result = <<>>
          ELSE LET members == Get(Get(aggregations, a).domains, d).senders
               IN /\ answer.result =
                        Flatten([n \in DOMAIN members |->
                                    get_message_ids_for_sender(a, members[n].k)])
                  /\ Len(answer.result) = Get(Get(aggregations, a).domains, d).total_count

C9_Witness ==
    /\ answer.op = "get_message_ids_for_domain"
    /\ answer.result = <<"n1", "n2">>
    /\ Len(Get(Get(aggregations, "acc2").domains, "x.com").senders) = 2

\* C10: the entry stored for an account holds the messages of the account's
\* most recently completed scan and nothing of earlier scans: ids, per-sender
\* counts, totals, sizes and histograms.
C10_RescanReplaces ==
    \A n \in DOMAIN aggregations :
       LET a == aggregations[n].k
           agg == aggregations[n].v
           last == parsed[a]
           S == SenderRecords(agg)
           D == DomainRecords(agg)
       IN /\ Len(HeldIds(agg)) = Len(last)
          /\ SeqToSet(HeldIds(agg)) = {last[m].id : m \in DOMAIN last}
          /\ agg.total_emails = Len(last)
          /\ agg.total_size = SumSeq([m \in DOMAIN last |-> last[m].size])
          /\ \A m \in DOMAIN S :
                /\ MessageIds(S[m].emails) = ParsedIdsOf(a, S[m].email)
                /\ S[m].count = Len(ParsedIdsOf(a, S[m].email))
                /\ SumAges(S[m].age_distribution) = S[m].count
          /\ SumSeq([m \in DOMAIN D |-> D[m].total_count]) = Len(last)
          /\ SumSeq([m \in DOMAIN D |-> SumAges(D[m].age_distribution)]) = Len(last)

\* a rescan that parsed fewer messages than the scan whose entry it replaced
C10_Witness ==
    /\ scan["t1"].pc = "done"
    /\ scan["t1"].replaced = <<Len(Mailbox(scan["t1"].account_id))>>
    /\ Get(aggregations, scan["t1"].account_id).total_emails = 1

\* the ids of every batch fetch of frame f that has returned, in request order
Fetched(f) == Flatten(f.requested)

\* the number of batches n ids make
Batches(n) == (n + batch_size - 1) \div batch_size

\* C14: the listed ids are cut into consecutive batches of batch_size ids in
\* list order, only the last of which may be smaller; once the batch loop has
\* run out every listed id has been requested in exactly one batch call and the
\* number of batch calls is the ceiling of n / batch_size, zero when no id was
\* listed.
C14_BatchesPartitionIds ==
    \A t \in Threads :
       LET f == scan[t]
           R == f.requested
           n == Len(f.message_ids)
       IN /\ \A b \in DOMAIN R :
                /\ R[b] = SubSeq(f.message_ids, (b - 1) * batch_size + 1,
                                 Min(b * batch_size, n))
                /\ Len(R[b]) >= 1
          /\ \A b \in 1..(Len(R) - 1) : Len(R[b]) = batch_size
          /\ f.pc \in {"build", "publish", "done"} =>
                /\ Fetched(f) = f.message_ids
                /\ Len(R) = f.batch_calls
                /\ f.batch_calls = Batches(n)

\* a finished scan of three ids: a full batch and a smaller last one
C14_Witness ==
    /\ scan["t1"].pc = "done"
    /\ Len(scan["t1"].message_ids) = batch_size + 1
    /\ Len(scan["t1"].requested) = 2
    /\ Len(scan["t1"].requested[1]) = batch_size
    /\ Len(scan["t1"].requested[2]) = 1
    /\ scan["t1"].batch_calls = 2

\* C15 as the specification words it: no message is folded into the sender
\* map before the detail fetches have all returned.
C15_NoFoldBeforeFetchEnds ==
    \A t \in Threads :
       scan[t].log # <<>> => Fetched(scan[t]) = scan[t].message_ids

\* C15: a scan lists, then fetches and folds batch by batch, then builds the
\* domains: no batch is fetched before the listing has returned; a batch is
\* fetched only when every message of the batches fetched before it has been
\* processed, so never two at a time; a message is folded only after the fetch
\* of its own batch has returned; and the domain build starts only when every
\* batch has been fetched and folded.
C15_PhasesInOrder ==
    \A t \in Threads :
       LET f == scan[t]
       IN /\ f.batch_calls > 0 => f.list_calls = 1 /\ f.pc # "list"
          /\ f.pc = "list" => f.requested = <<>> /\ f.log = <<>> /\ f.processed = 0
          /\ f.pc = "batch" => f.processed = Len(Fetched(f))
          /\ f.processed <= Len(Fetched(f))
          /\ \A n \in DOMAIN f.log : \E m \in DOMAIN Fetched(f) : Fetched(f)[m] = f.log[n].id
          /\ f.pc \in {"build", "publish", "done"} =>
                /\ Fetched(f) = f.message_ids
                /\ f.processed = Len(f.message_ids)

\* the first batch has been folded and the second has yet to be fetched
C15_Witness ==
    /\ scan["t1"].pc = "batch"
    /\ Len(scan["t1"].requested) = 1
    /\ Len(scan["t1"].log) = batch_size
    /\ scan["t1"].i < Len(scan["t1"].message_ids)

\* C20: in every published aggregation each sender entry of a domain is the
\* very record the account-level sender map holds for that email, every
\* account-level sender sits in exactly the domain its domain field names, and
\* the domain keys are exactly the domains of the senders.
C20_DomainsShareSenders ==
    \A n \in DOMAIN aggregations :
       LET agg == aggregations[n].v
       IN /\ \A d \in DOMAIN agg.domains :
                \A e \in DOMAIN agg.domains[d].v.senders :
                   LET entry == agg.domains[d].v.senders[e]
                   IN /\ Has(agg.senders, entry.k)
                      /\ Get(agg.senders, entry.k) = entry.v
                      /\ agg.objs[entry.v].email = entry.k
                      /\ agg.objs[entry.v].domain = agg.domains[d].k
          /\ \A m \in DOMAIN agg.senders :
                LET s == agg.objs[agg.senders[m].v]
                IN {agg.domains[d].k : d \in {x \in DOMAIN agg.domains :
                                                 Has(agg.domains[x].v.senders, s.email)}}
                       = {s.domain}
          /\ Keys(agg.domains) = {agg.objs[agg.senders[m].v].domain : m \in DOMAIN agg.senders}

\* a published aggregation with a domain of two senders, both of them the
\* records of the account-level map
C20_Witness ==
    \E n \in DOMAIN aggregations :
       LET agg == aggregations[n].v
       IN /\ Len(agg.senders) = 2
          /\ Len(agg.objs) = 2
          /\ \E d \in DOMAIN agg.domains :
                /\ Len(agg.domains[d].v.senders) = 2
                /\ {agg.domains[d].v.senders[e].v : e \in 1..2} = {1, 2}

\* the ids of the pages frame f's listing has gathered, in page order
PagedIds(f) == Flatten([p \in DOMAIN f.pages |-> f.pages[p].messages])

\* C18: when a page request of the id listing ends in an HTTP error, the
\* listing returns the ids of the pages gathered before the failure and raises
\* nothing; the scan goes on to fetch, fold and publish over exactly those
\* ids, and what it publishes holds the whole of them.
C18_HttpErrorKeepsPages ==
    \A t \in Threads :
       LET f == scan[t]
       IN f.http_failed =>
             /\ f.pc \in {"batch", "msg", "build", "publish", "done", "raised"}
             /\ f.message_ids = PagedIds(f)
             /\ f.total = Len(PagedIds(f))
             /\ f.pc = "raised" => f.err = "RuntimeError" /\ f.batch_calls >= 1
             /\ f.pc \in {"build", "publish", "done"} => Fetched(f) = PagedIds(f)
             /\ f.pc = "done" =>
                   /\ Has(aggregations, f.account_id)
                   /\ Complete(Get(aggregations, f.account_id), f)

\* the second page request failed: the first page's ids were scanned and published
C18_Witness ==
    /\ scan["t1"].pc = "done"
    /\ scan["t1"].http_failed
    /\ Len(scan["t1"].pages) = 1
    /\ scan["t1"].pages[1].nextPageToken # 0
    /\ scan["t1"].message_ids = scan["t1"].pages[1].messages
    /\ Get(aggregations, scan["t1"].account_id).total_emails >= 1

\* what C19 says of a frame while and after its listing runs
ListingBounded(f) ==
    f.max_emails # <<>> =>
       LET N == f.max_emails[1]
           cap == IF N > 0 THEN N ELSE 0
           P == f.pages
       IN /\ \A p \in DOMAIN P :
                /\ P[p].before = Len(Flatten([q \in 1..(p - 1) |-> P[q].messages]))
                /\ P[p].maxResults = Min(PageMax, N - P[p].before)
                /\ P[p].maxResults >= 1
                /\ p < Len(P) => P[p].nextPageToken # 0
          /\ Len(f.gathered) <= cap
          /\ N <= 0 => P = <<>>
          /\ f.pc \in {"batch", "msg", "build", "publish", "done"} =>
                /\ f.message_ids = PagedIds(f)
                /\ Len(f.message_ids) <= cap
                /\ f.total <= cap
                /\ \/ Len(f.message_ids) = cap
                   \/ f.http_failed
                   \/ P # <<>> /\ P[Len(P)].nextPageToken = 0
          /\ f.pc = "done" => Get(aggregations, f.account_id).total_emails <= cap

\* C19: with max_emails = N and pages of at most the requested size, the id
\* listing ends; it asks for min(PageMax, N - gathered) ids per page, stops
\* once N ids are gathered or no next page exists, and returns at most N ids,
\* none when N <= 0; the scan's total and the published total_emails never
\* exceed N.
C19_MaxEmailsBoundsListing ==
    /\ [](\A t \in Threads : ListingBounded(scan[t]))
    /\ \A t \in Threads : (scan[t].pc = "list") ~> (scan[t].pc # "list")

\* N = 2 of a larger mailbox: a short first page, a second request for the one
\* id still wanted, and the loop stopping although a next page exists
C19_Witness ==
    /\ scan["t1"].pc = "done"
    /\ scan["t1"].max_emails = <<2>>
    /\ Len(scan["t1"].pages) = 2
    /\ scan["t1"].pages[1].maxResults = 2
    /\ Len(scan["t1"].pages[1].messages) = 1
    /\ scan["t1"].pages[2].maxResults = 1
    /\ scan["t1"].pages[2].nextPageToken # 0
    /\ Len(scan["t1"].message_ids) = 2
    /\ ~scan["t1"].http_failed

\* the batch loop of lines 331-356 run over ids and their details from the
\* n-th on, nothing else running
RECURSIVE FoldFrom(_, _, _, _)
FoldFrom(f, ids, details, n) ==
    IF n > Len(ids) THEN f
    ELSE LET f1 == report_progress(f, ids[n])
             r == _process_message_details(ids[n], details[n])
         IN FoldFrom(IF r = <<>> THEN f1 ELSE fold(f1, r[1]), ids, details, n + 1)

\* the domain build of lines 358-370 run to its end
RECURSIVE BuildAll(_)
BuildAll(f) ==
    IF build_done(f) THEN [f EXCEPT !.aggregation.domains = f.domains_data]
    ELSE BuildAll(build_one(f))

\* the aggregation the scan of frame f produces when it runs alone on the ids
\* it listed and the details it was given
Alone(f) ==
    LET f0 == [IdleFrame EXCEPT
                  !.account_id = f.account_id,
                  !.aggregation = AccountAggregation(f.aggregation.account_id,
                                                     f.aggregation.email_address),
                  !.message_ids = f.message_ids, !.total = Len(f.message_ids)]
        f1 == BuildAll(FoldFrom(f0, f.message_ids, f.details, 1))
    IN [f1.aggregation EXCEPT !.objs = f1.objs]

\* C16: two scans of different accounts running at the same time on one
\* aggregator do not disturb each other: under every interleaving each scan
\* that has finished has its result published under its own account id, and
\* that result is the aggregation the scan produces when run alone.
C16_ConcurrentScansIndependent ==
    \A t \in Threads : \A u \in Threads \ {t} :
       (scan[t].pc = "done" /\ scan[u].account_id # scan[t].account_id) =>
           /\ Has(aggregations, scan[t].account_id)
           /\ Get(aggregations, scan[t].account_id) = Alone(scan[t])
           /\ scan[u].pc = "done" =>
                 Keys(aggregations) = {scan[t].account_id, scan[u].account_id}

\* both scans have finished, the second begun while the first was under way,
\* each with senders of its own
C16_Witness ==
    /\ scan["t1"].pc = "done" /\ scan["t2"].pc = "done"
    /\ scan["t1"].account_id = "acc1" /\ scan["t2"].account_id = "acc2"
    /\ scan["t1"].concurrent \/ scan["t2"].concurrent
    /\ Len(Get(aggregations, "acc1").senders) >= 2
    /\ Len(Get(aggregations, "acc2").senders) >= 2

\* C17: of two scans of the same account running at the same time the one
\* that publishes last wins: once both have finished the stored entry is the
\* complete result of the scan that replaced the other's entry, and holds
\* nothing of the other.
C17_LastPublisherWins ==
    \A t \in Threads : \A u \in Threads \ {t} :
       (/\ scan[t].pc = "done" /\ scan[u].pc = "done"
        /\ scan[t].account_id = scan[u].account_id) =>
           /\ (scan[t].replaced # <<>>) # (scan[u].replaced # <<>>)
           /\ scan[t].replaced # <<>> =>
                 /\ Get(aggregations, scan[t].account_id) = Alone(scan[t])
                 /\ Complete(Get(aggregations, scan[t].account_id), scan[t])
                 /\ scan[t].replaced = <<Alone(scan[u]).total_emails>>

\* the last publisher listed one id, the scan it replaced two
C17_Witness ==
    \E t \in Threads : \E u \in Threads \ {t} :
       /\ scan[t].pc = "done" /\ scan[u].pc = "done"
       /\ scan[t].account_id = scan[u].account_id
       /\ scan[t].concurrent \/ scan[u].concurrent
       /\ scan[t].replaced = <<2>>
       /\ Len(scan[t].message_ids) = 1
       /\ Get(aggregations, scan[t].account_id).total_emails = 1

MaxDays == 366

EmailDates == {<<>>} \cup {<<d>> : d \in -1 .. MaxDays}

Schemes == {"http", "https", "HTTPS", "mailto", "javascript", "ftp", ""}

Netlocs == {<<"">>, <<"example.com">>, <<"localhost">>, <<"LOCALHOST", "8080">>,
            <<"127.0.0.1">>, <<"0.0.0.0">>,
            <<"[", "", "1]">>, <<"[", "", "1]", "8080">>, <<"[", "", "1">>}

\* "scheme:..." without "//" has the empty netloc and nothing after "scheme://"
UrlInputs ==
    {<<>>} \cup {<<[scheme |-> sc, netloc |-> nl, rest |-> nl # <<"">>, bracketed |-> TRUE]>> :
                    sc \in Schemes, nl \in Netlocs}

\* the entries a List-Unsubscribe header may hold
Entries ==
    {Url("https", <<"example.com">>), Url("http", <<"localhost">>),
     Url("mailto", <<"">>), Url("HTTPS", <<"example.com">>),
     Url("http", <<"y.com">>),
     [scheme |-> "https", netloc |-> <<"x.com">>, rest |-> TRUE, bracketed |-> FALSE]}

UnsubscribeHeaders ==
    {<<>>} \cup {<<Hdr("List-Unsubscribe", <<e>>)>> : e \in Entries}
           \cup {<<Hdr("List-Unsubscribe", <<e1, e2>>)>> : e1 \in Entries, e2 \in Entries}

OtherHeaders ==
    {<<>>,
     <<Hdr("Subject", <<"hi">>)>>,
     <<Hdr("Date", <<[ok |-> TRUE, days |-> 0]>>)>>,
     <<Hdr("From", <<[name |-> "Bob", parts |-> <<"b", "y.com">>]>>),
       Hdr("Date", <<[ok |-> FALSE, days |-> 0]>>)>>}

Pure(op, key, result) ==
    /\ answer' = [NoAnswer EXCEPT !.op = op, !.key = key, !.result = result]
    /\ UNCHANGED <<accounts, aggregations, scan, parsed, heap, dom, adds, all,
                   fetch, scan_progress, window>>

GetAgeCategory ==
    \E email_date \in EmailDates :
        Pure("get_age_category", email_date, get_age_category(email_date))

ValidateUnsubscribeUrl ==
    \E url \in UrlInputs :
        Pure("validate_unsubscribe_url", url, validate_unsubscribe_url(url))

ProcessMessageDetails ==
    \E h1 \in OtherHeaders, h2 \in UnsubscribeHeaders :
        Pure("_process_message_details", h1 \o h2,
             _process_message_details("p1", <<Message("p1", h1 \o h2, 1).details>>))

NextPure == GetAgeCategory \/ ValidateUnsubscribeUrl \/ ProcessMessageDetails

SpecPure == Init /\ [][NextPure]_vars

\* C21: get_age_category returns the first category, in the order today(1),
\* week(7), month(30), 3months(90), 6months(180), year(365), older, whose max age
\* exceeds the whole-day age d; an absent date is older; the result is always
\* one of the seven keys.
C21_AgeThresholds ==
    answer.op = "get_age_category" =>
        LET r == answer.result
        IN /\ r \in {"today", "week", "month", "3months", "6months", "year", "older"}
           /\ answer.key = <<>> => r = "older"
           /\ answer.key # <<>> =>
                LET d == answer.key[1]
                IN /\ r = "today" <=> d < 1
                   /\ r = "week" <=> (1 <= d /\ d < 7)
                   /\ r = "month" <=> (7 <= d /\ d < 30)
                   /\ r = "3months" <=> (30 <= d /\ d < 90)
                   /\ r = "6months" <=> (90 <= d /\ d < 180)
                   /\ r = "year" <=> (180 <= d /\ d < 365)
                   /\ r = "older" <=> d >= 365

C21_Witness ==
    /\ answer.op = "get_age_category"
    /\ answer.key = <<1>>
    /\ answer.result = "week"

\* C22: validate_unsubscribe_url returns its input unchanged or nothing, and the
\* input only when the parsed scheme is http, https or mailto; javascript:alert(1)
\* and http://localhost/unsub give nothing, https://example.com/u and
\* mailto:x@y.com give themselves, the empty input gives nothing, and an input
\* urlparse cannot parse gives nothing instead of an exception.
C22_AllowList ==
    answer.op = "validate_unsubscribe_url" =>
        LET url == answer.key
            r == answer.result
        IN /\ r \in {<<>>, url}
           /\ url = <<>> => r = <<>>
           /\ url # <<>> =>
                /\ r # <<>> => Lower(url[1].scheme) \in {"http", "https", "mailto"}
                /\ (\E i \in DOMAIN url[1].netloc : url[1].netloc[i] = "[")
                     /\ (\A i \in DOMAIN url[1].netloc : url[1].netloc[i] # "1]")
                   => r = <<>>
                /\ url[1].scheme = "javascript" => r = <<>>
                /\ url[1].scheme = "http" /\ url[1].netloc = <<"localhost">> => r = <<>>
                /\ url[1].scheme = "https" /\ url[1].netloc = <<"example.com">> => r = url
                /\ url[1].scheme = "mailto" /\ url[1].netloc = <<"">> => r = url

C22_Witness ==
    /\ answer.op = "validate_unsubscribe_url"
    /\ answer.key # <<>>
    /\ answer.key[1].scheme = "mailto"
    /\ answer.key[1].netloc = <<"">>
    /\ answer.result = answer.key

\* the host a netloc addresses: the text inside [...] for a bracketed IPv6
\* literal, else the text before the first ':'
Hostname(netloc) ==
    IF Len(netloc) >= 3 /\ netloc[1] = "[" /\ netloc[2] = "" /\ netloc[3] = "1]"
    THEN "::1"
    ELSE Lower(netloc[1])

\* C23: for http and https URLs the validator requires a non-empty host and
\* rejects every URL whose host is localhost, 127.0.0.1, 0.0.0.0 or ::1,
\* case-insensitively and with any port stripped, while other hosts are accepted.
C23_LoopbackHostsRejected ==
    /\ answer.op = "validate_unsubscribe_url"
    /\ answer.key # <<>>
    /\ urlparse(answer.key[1]).ok
    /\ urlparse(answer.key[1]).scheme \in {"http", "https"}
    => LET host == Hostname(answer.key[1].netloc)
       IN IF host \in {"", "localhost", "127.0.0.1", "0.0.0.0", "::1"}
          THEN answer.result = <<>>
          ELSE answer.result = answer.key

\* C24: the record's unsubscribe_link is the first bracketed http(s) URL of the
\* List-Unsubscribe header when the validator accepts it and nothing otherwise;
\* later URLs are never tried; a header with only a mailto target or without a
\* bracketed URL gives no link, and a record is built all the same.
C24_FirstUrlOnly ==
    answer.op = "_process_message_details" =>
        LET unsubscribe == get_header_value(answer.key, "List-Unsubscribe")
            http == {i \in DOMAIN unsubscribe :
                        /\ unsubscribe[i].bracketed
                        /\ unsubscribe[i].scheme \in {"http", "https"}}
            first == CHOOSE i \in http : \A j \in http : i <= j
        IN /\ answer.result # <<>>
           /\ answer.result[1].info.unsubscribe_link =
                IF http = {} THEN <<>>
                ELSE validate_unsubscribe_url(<<unsubscribe[first]>>)
           /\ answer.result[1].info.unsubscribe_link \in
                {<<>>} \cup {<<unsubscribe[i]>> : i \in http}

C24_Witness ==
    /\ answer.op = "_process_message_details"
    /\ get_header_value(answer.key, "List-Unsubscribe")
         = <<Url("http", <<"localhost">>), Url("https", <<"example.com">>)>>
    /\ answer.result[1].info.unsubscribe_link = <<>>


(***************************************************************************)
(* A scan of an account whose messages lack headers.                       *)
(***************************************************************************)
\* GmailAccountManager.add_account: a new id gets an authenticated client
AddAccount(account_id) ==
    /\ account_id \notin accounts
    /\ accounts' = accounts \cup {account_id}
    /\ UNCHANGED <<aggregations, scan, parsed, heap, dom, adds, answer, all,
                   fetch, scan_progress, window>>

NextHeaders ==
    \/ AddAccount("acc3")
    \/ Call("t1", "acc3")
    \/ List("t1")
    \/ ListRaises("t1")
    \/ FetchBatch("t1")
    \/ BatchRaises("t1")
    \/ ProcessMessage("t1")
    \/ Build("t1")
    \/ Publish("t1")
    \/ Return("t1")

SpecHeaders == Init /\ [][NextHeaders]_vars

HeadersOf(account_id, id) == DetailOf(account_id, id).payload.headers

\* the ids of a finished scan that came with a detail and without a From header
Senderless(f) ==
    SelectSeq(f.message_ids,
              LAMBDA id : /\ id \notin f.skipped
                          /\ get_header_value(HeadersOf(f.account_id, id), "From") = <<>>)

\* C25: a message without a From header is ingested without error: name, email
\* and domain are the empty string, it sits under the sender key "" and the
\* domain key "", all such messages of a scan sit in that one sender entry; a
\* missing Subject or Date gives the empty string, the missing Date classifying
\* as older.
C25_MissingHeadersIngested ==
    \A t \in Threads :
       scan[t].pc = "done" =>
          LET f == scan[t]
              agg == Get(aggregations, f.account_id)
              S == SenderRecords(agg)
          IN /\ f.err = ""
             /\ Senderless(f) # <<>> =>
                   /\ Has(agg.senders, <<"">>)
                   /\ LET s == agg.objs[Get(agg.senders, <<"">>)]
                      IN /\ s.name = "" /\ s.email = <<"">> /\ s.domain = ""
                         /\ MessageIds(s.emails) = Senderless(f)
                         /\ s.count = Len(Senderless(f))
                   /\ Has(agg.domains, "")
                   /\ Keys(Get(agg.domains, "").senders) = {<<"">>}
                   /\ get_message_ids_for_sender(f.account_id, <<"">>) = Senderless(f)
             /\ \A n \in DOMAIN S : \A m \in DOMAIN S[n].emails :
                   LET e == S[n].emails[m]
                       headers == HeadersOf(f.account_id, e.message_id)
                   IN /\ get_header_value(headers, "Subject") = <<>> => e.subject = <<>>
                      /\ get_header_value(headers, "Date") = <<>> =>
                            e.date = <<>> /\ e.age_category = "older"
                      /\ get_header_value(headers, "From") = <<>> => S[n].email = <<"">>

\* both senderless messages of the mailbox in the one entry, beside a third sender
C25_Witness ==
    /\ scan["t1"].pc = "done"
    /\ scan["t1"].account_id = "acc3"
    /\ Senderless(scan["t1"]) = <<"h1", "h2">>
    /\ Len(Get(aggregations, "acc3").senders) = 2
    /\ Get(aggregations, "acc3").objs[Get(Get(aggregations, "acc3").senders, <<"">>)].count = 2


(***************************************************************************)
(* GmailClient.get_messages_batch, step by step.                           *)
(***************************************************************************)
\* line 301
max_retries == 3

\* the batch_size arguments: one id per batch, and aggregate_account's value
BatchSizeArgs == {1, batch_size}

\* the message_ids arguments: the first ids of a mailbox, in listing order
MessageIdArgs ==
    {[n \in 1..k |-> Mailbox("acc1")[n].id] : k \in 0..Len(Mailbox("acc1"))}

\* how one batch.execute() can end
Outcomes == {"ok", "429", "HttpError", "Exception"}

\* a handler that re-executes after every HttpError
should_retry_any(outcome, attempt) ==
    outcome \in {"429", "HttpError"} /\ attempt < max_retries - 1

\* line 307: e.resp.status == 429 and attempt < max_retries - 1
should_retry(outcome, attempt) == outcome = "429" /\ attempt < max_retries - 1

\* lines 263-267: the call begins; service is whether the client holds one
GetMessagesBatch(service, message_ids, size) ==
    /\ fetch.pc = "idle"
    /\ fetch' = IF ~service
                THEN [IdleFetch EXCEPT !.pc = "raised", !.err = "RuntimeError",
                                       !.message_ids = message_ids, !.batch_size = size]
                ELSE [IdleFetch EXCEPT !.pc = "loop", !.message_ids = message_ids,
                                       !.batch_size = size]
    /\ UNCHANGED <<accounts, aggregations, scan, parsed, heap, dom, adds, answer, all,
                   scan_progress, window>>

\* lines 269-301: the next batch is put together, or line 328 returns
NextBatch ==
    /\ fetch.pc = "loop"
    /\ fetch' = IF fetch.i >= Len(fetch.message_ids)
                THEN [fetch EXCEPT !.pc = "returned"]
                ELSE [fetch EXCEPT
                         !.pc = "execute",
                         !.batch_ids = SubSeq(fetch.message_ids, fetch.i + 1,
                                              Min(fetch.i + fetch.batch_size,
                                                  Len(fetch.message_ids))),
                         !.batch_results = <<>>,
                         !.attempt = 0,
                         !.executions = Append(@, 0),
                         !.outcomes = Append(@, <<>>)]
    /\ UNCHANGED <<accounts, aggregations, scan, parsed, heap, dom, adds, answer, all,
                   scan_progress, window>>

\* what one execution leaves in the frame besides the callback's entries
executed(f, outcome) ==
    [f EXCEPT !.executions[Len(f.executions)] = @ + 1,
              !.outcomes[Len(f.outcomes)] = Append(@, outcome),
              !.attempt = IF should_retry(outcome, f.attempt) THEN @ + 1 ELSE @,
              !.pc = IF should_retry(outcome, f.attempt) THEN "execute" ELSE "collect"]

\* lines 304-305 with 273-284: batch.execute() succeeds; the callback stores the
\* response of each request that got one and {} for each that failed
ExecuteOk ==
    /\ fetch.pc = "execute"
    /\ \E got \in SUBSET DOMAIN fetch.batch_ids :
          LET f == executed(fetch, "ok")
              entries == [n \in DOMAIN fetch.batch_ids |->
                            [k |-> fetch.batch_ids[n],
                             v |-> IF n \in got
                                   THEN <<DetailOf("acc1", fetch.batch_ids[n])>>
                                   ELSE <<>>]]
          IN fetch' = [f EXCEPT !.batch_results = entries,
                                !.responded = @ \cup {fetch.batch_ids[n] : n \in got}]
    /\ UNCHANGED <<accounts, aggregations, scan, parsed, heap, dom, adds, answer, all,
                   scan_progress, window>>

\* lines 306-317: batch.execute() raises; no callback has run
ExecuteRaises(outcome) ==
    /\ fetch.pc = "execute"
    /\ outcome # "ok"
    /\ fetch' = executed(fetch, outcome)
    /\ UNCHANGED <<accounts, aggregations, scan, parsed, heap, dom, adds, answer, all,
                   scan_progress, window>>

\* lines 320-321: batch_results.get(msg_id, {}) for each id of the batch
Collect ==
    /\ fetch.pc = "collect"
    /\ fetch' = [fetch EXCEPT
                    !.all_results = @ \o [n \in DOMAIN fetch.batch_ids |->
                                            IF Has(fetch.batch_results, fetch.batch_ids[n])
                                            THEN Get(fetch.batch_results, fetch.batch_ids[n])
                                            ELSE <<>>],
                    !.i = @ + fetch.batch_size,
                    !.pc = "loop"]
    /\ UNCHANGED <<accounts, aggregations, scan, parsed, heap, dom, adds, answer, all,
                   scan_progress, window>>

\* the caller takes the list or the exception
FetchReturn ==
    /\ fetch.pc \in {"returned", "raised"}
    /\ fetch' = IdleFetch
    /\ UNCHANGED <<accounts, aggregations, scan, parsed, heap, dom, adds, answer, all,
                   scan_progress, window>>

\* the steps of a call in progress
FetchStep ==
    \/ NextBatch
    \/ ExecuteOk
    \/ \E outcome \in Outcomes \ {"ok"} : ExecuteRaises(outcome)
    \/ Collect

NextFetch ==
    \/ \E service \in BOOLEAN, message_ids \in MessageIdArgs, size \in BatchSizeArgs :
          GetMessagesBatch(service, message_ids, size)
    \/ FetchStep
    \/ FetchReturn

\* the thread inside get_messages_batch keeps running
SpecFetch == Init /\ [][NextFetch]_vars /\ WF_vars(FetchStep)

\* the batches a call has finished with
Finished(f) ==
    {b \in DOMAIN f.executions : b < Len(f.executions) \/ f.pc \in {"collect", "loop", "returned"}}

\* C26: each batch is executed at most 3 times, again only after a 429 failure
\* of the attempt before, and no more after the first success, a non-429 error
\* or the third attempt; the call ends, and returns one entry per requested id
\* in the order of the ids, the empty entry for each id without a response.
C26_BoundedRetries ==
    /\ [](\A b \in DOMAIN fetch.executions :
             /\ fetch.executions[b] = Len(fetch.outcomes[b])
             /\ fetch.executions[b] <= 3
             /\ \A k \in 1..(Len(fetch.outcomes[b]) - 1) : fetch.outcomes[b][k] = "429"
             /\ b \in Finished(fetch) =>
                   /\ fetch.executions[b] >= 1
                   /\ fetch.outcomes[b][fetch.executions[b]] = "429" => fetch.executions[b] = 3)
    /\ [](fetch.pc = "returned" =>
             /\ Len(fetch.all_results) = Len(fetch.message_ids)
             /\ \A n \in DOMAIN fetch.message_ids :
                   fetch.all_results[n] =
                      IF fetch.message_ids[n] \in fetch.responded
                      THEN <<DetailOf("acc1", fetch.message_ids[n])>> ELSE <<>>)
    /\ (fetch.pc \in {"loop", "execute", "collect"} ~> fetch.pc = "returned")

\* a call over two batches: the first succeeded on its third execution, the
\* second stopped at an error, and the list came back
C26_Witness ==
    /\ fetch.pc = "returned"
    /\ Len(fetch.message_ids) = 3
    /\ fetch.outcomes = <<(<<"429", "429", "ok">>), (<<"HttpError">>)>>
    /\ fetch.responded = {"m1"}
    /\ fetch.all_results[2] = <<>>


\* how often x occurs in the sequence q
Count(q, x) == Cardinality({n \in DOMAIN q : q[n] = x})

\* the ids get_message_ids_for_domain gives, domain after domain of the account
DomainIds(agg) ==
    Flatten([n \in DOMAIN agg.domains |->
                get_message_ids_for_domain(agg.account_id, agg.domains[n].k)])

\* C27: within aggregate_account, add_sender is called once per distinct sender
\* email and never merges; with distinct listed ids every parsed message id is
\* in exactly one sender's list, once, and occurs once in the ids of all the
\* account's domains together.
C27_SendersPartitionMessages ==
    \A t \in Threads :
       LET f == scan[t]
           emails == {f.log[n].email : n \in DOMAIN f.log}
       IN /\ \A n \in DOMAIN f.added :
                /\ ~f.added[n].merged
                /\ \A m \in DOMAIN f.added : f.added[m].email = f.added[n].email => m = n
          /\ f.pc \in {"publish", "done"} =>
                /\ {f.added[n].email : n \in DOMAIN f.added} = emails
                /\ Len(f.added) = Cardinality(emails)
          /\ f.pc = "done" =>
                LET agg == Get(aggregations, f.account_id)
                IN \A n \in DOMAIN f.log :
                      /\ Count(HeldIds(agg), f.log[n].id) = 1
                      /\ Count(DomainIds(agg), f.log[n].id) = 1

\* three messages of two senders in two domains, one sender holding two
C27_Witness ==
    /\ scan["t1"].pc = "done"
    /\ Len(scan["t1"].log) = 3
    /\ Len(scan["t1"].added) = 2
    /\ Len(Get(aggregations, scan["t1"].account_id).domains) = 2


(***************************************************************************)
(* The web front-end (app.py): scans started over HTTP run in a background *)
(* thread and report through scan_progress; accounts can be removed while  *)
(* a scan runs.                                                            *)
(***************************************************************************)
\* the scans one run of the server starts
MaxScans == 1

\* the account_id of a scan request: None (all accounts), a connected account,
\* an unknown one
ScanArgs == {<<>>, <<"acc2">>, <<"ghost">>}

\* the scans whose status is running
RunningScans == {n \in DOMAIN scan_progress : scan_progress[n].v.status = "running"}

\* the entry of the scan the background thread works for
Current == CHOOSE n \in RunningScans : TRUE

\* a thread that reports completion whatever happened
final_status_completed(raised) == "completed"

\* app.py:108-112: the status run_scan_background leaves
final_status(raised) == IF raised THEN "failed" ELSE "completed"

\* app.py:115-142: a fresh scan id, its entry, and a thread that has yet to run
StartScan(account_id) ==
    /\ Len(scan_progress) < MaxScans
    /\ RunningScans = {}
    /\ scan_progress' = Put(scan_progress, Len(scan_progress) + 1,
                            [status |-> "running", current |-> 0, total |-> 0,
                             account |-> IF account_id = <<>> THEN "all" ELSE account_id[1],
                             error |-> <<>>,
                             requested |-> account_id])   \* the thread's argument
    /\ UNCHANGED <<accounts, aggregations, scan, parsed, heap, dom, adds, answer, all,
                   fetch, window>>

\* app.py:84-106: the thread enters aggregate_account or aggregate_all_accounts
RunScan(t) ==
    /\ RunningScans # {}
    /\ scan[t].pc = "idle" /\ all.pc = "idle"
    /\ LET account_id == scan_progress[Current].v.requested
       IN IF account_id # <<>> THEN Call(t, account_id[1]) ELSE AllStart

\* app.py:86-89 and 97-101: the progress callback writes into the scan's entry
WebProcessMessage(t) ==
    /\ RunningScans # {}
    /\ IF all.pc = "loop" THEN AllProcessMessageIn(t)
       ELSE all.pc = "idle" /\ ProcessMessageIn(t) /\ UNCHANGED all
    /\ scan_progress' =
          IF Len(scan'[t].calls) > Len(scan[t].calls)
          THEN LET c == scan'[t].calls[Len(scan'[t].calls)]
               IN [scan_progress EXCEPT
                      ![Current].v.current = c.processed,
                      ![Current].v.total = c.total,
                      ![Current].v.account = IF all.pc = "loop" THEN scan[t].account_id ELSE @]
          ELSE scan_progress

\* aggregator.py:392: the dict changed size while aggregate_all_accounts iterates
AllChanged(t) ==
    /\ all.pc = "loop"
    /\ scan[t].pc = "idle"
    /\ Cardinality(accounts) # all.size
    /\ all' = [all EXCEPT !.pc = "raised", !.err = "RuntimeError"]
    /\ UNCHANGED <<accounts, aggregations, scan, parsed, heap, dom, adds, answer,
                   fetch, scan_progress, window>>

\* app.py:108-112: the aggregation returned or raised; the thread ends
EndScan(t) ==
    /\ RunningScans # {}
    /\ \/ all.pc = "idle" /\ scan[t].pc \in {"done", "raised"}
       \/ all.pc \in {"returned", "raised"}
    /\ LET raised == IF all.pc = "idle" THEN scan[t].pc = "raised" ELSE all.pc = "raised"
           err == IF all.pc = "idle" THEN scan[t].err ELSE all.err
       IN scan_progress' = [scan_progress EXCEPT
                               ![Current].v.status = final_status(raised),
                               ![Current].v.error = IF raised THEN <<err>> ELSE @]
    /\ scan' = [scan EXCEPT ![t] = IdleFrame]
    /\ all' = IdleAll
    /\ UNCHANGED <<accounts, aggregations, parsed, heap, dom, adds, answer, fetch, window>>

\* app.py:72-79: the account leaves the manager (its client disconnected) and
\* its cached aggregation is deleted
RemoveAccountWeb(account_id) ==
    /\ account_id \in accounts \/ Has(aggregations, account_id)
    /\ accounts' = accounts \ {account_id}
    /\ aggregations' = SelectSeq(aggregations, LAMBDA e : e.k # account_id)
    /\ UNCHANGED <<scan, parsed, heap, dom, adds, answer, all, fetch, scan_progress, window>>

\* the steps of the background thread, the loop over a batch's messages apart
WebStep(t) ==
    \/ RunScan(t)
    \/ AllInvoke(t)
    \/ List(t)
    \/ ListRaises(t)
    \/ FetchBatch(t)
    \/ BatchRaises(t)
    \/ Build(t)
    \/ Publish(t)
    \/ AllReturn(t)
    \/ AllRaise(t)
    \/ AllChanged(t)
    \/ AllFinish(t)
    \/ EndScan(t)

NextWeb ==
    \/ \E account_id \in ScanArgs : StartScan(account_id)
    \/ WebStep("t1")
    \/ WebProcessMessage("t1")
    \/ \E account_id \in {"acc1", "acc2"} : RemoveAccountWeb(account_id)

\* the background thread keeps running: it takes its next step whenever it has
\* one, and it does not stay inside the loop over a batch's messages, whose
\* only step is WebProcessMessage
SpecWeb ==
    /\ Init /\ [][NextWeb]_vars
    /\ WF_vars(WebStep("t1"))
    /\ []<>(scan["t1"].pc # "msg")


\* the background thread has come back from an aggregation that raised
Raised(t) == IF all.pc = "idle" THEN scan[t].pc = "raised" ELSE all.pc = "raised"

\* the background thread has come back from an aggregation that published the
\* requested account, or every account of the dict when none was named
PublishedAll(t, requested) ==
    IF requested # <<>>
    THEN all.pc = "idle" /\ scan[t].pc = "done" /\ scan[t].account_id = requested[1]
    ELSE all.pc = "returned" /\ Len(all.invoked) = all.size

\* C29: a web scan's status starts as running and changes exactly once, to
\* completed or failed, and never again; it becomes completed only after the
\* aggregation of every requested account was published, and failed, with the
\* error recorded, whenever the aggregation raised.
C29_StatusChangesOnce ==
    /\ [][\A n \in DOMAIN scan_progress' :
             IF n \in DOMAIN scan_progress
             THEN LET old == scan_progress[n].v
                      new == scan_progress'[n].v
                  IN /\ new.requested = old.requested
                     /\ new.status # old.status =>
                           /\ old.status = "running"
                           /\ new.status \in {"completed", "failed"}
                           /\ new.status = "completed" => PublishedAll("t1", old.requested)
                           /\ Raised("t1") =>
                                 /\ new.status = "failed"
                                 /\ new.error # <<>> /\ new.error[1] # ""
                     /\ old.status # "running" => new = old
             ELSE scan_progress'[n].v.status = "running"]_vars
    /\ [][Len(scan_progress') >= Len(scan_progress)]_vars
    /\ \A n \in 1..MaxScans :
          (n \in DOMAIN scan_progress) ~>
              (n \in DOMAIN scan_progress
                  /\ scan_progress[n].v.status \in {"completed", "failed"})

\* a scan of all accounts that completed with both accounts in the store
C29_Witness ==
    /\ Len(scan_progress) = 1
    /\ scan_progress[1].v.requested = <<>>
    /\ scan_progress[1].v.status = "completed"
    /\ scan_progress[1].v.account = "acc2"
    /\ Keys(aggregations) = {"acc1", "acc2"}


(***************************************************************************)
(* The desktop front-end (desktop-app/src/main.py): the scan button starts *)
(* a ScanWorker thread that scans every account and signals the window     *)
(* when it ends; accounts can be removed at any time.  One call of         *)
(* aggregate_account is one step of the worker here.                       *)
(***************************************************************************)
\* the clicks on the scan button in one run of the application
MaxClicks == 2

\* main.py:468: the limit the result views pass to get_top_senders
ViewLimit == 10000

\* aggregate_account run from its first line to its last, on the ids the
\* listing gave and the details the batch fetches gave
aggregate_account(account_id, messages, details) ==
    LET client == Client(account_id)
        f0 == [IdleFrame EXCEPT
                  !.account_id = account_id,
                  !.aggregation =
                      AccountAggregation(account_id,
                                         IF client.email_address # <<>>
                                         THEN client.email_address[1] ELSE account_id)]
        f1 == BuildAll(FoldFrom(listed(f0, messages), messages, details, 1))
    IN [f1.aggregation EXCEPT !.objs = f1.objs]

\* update_senders_view: the accounts get_top_senders(limit=10000) lists
update_results == {e.acc : e \in SeqToSet(get_top_senders(<<>>, ViewLimit))}

\* start_scan leaving the button as it is
start_scan_keeps_enabled(w) ==
    [w EXCEPT !.worker = "running", !.started = @ + 1]

\* main.py:394-405: the button is disabled, the worker created and started
start_scan(w) ==
    [w EXCEPT !.scan_btn = FALSE, !.worker = "running", !.started = @ + 1]

\* main.py:202-204, 388-405: a click on the enabled button runs start_scan
ClickScan ==
    /\ window.scan_btn
    /\ window.clicks < MaxClicks
    /\ window' = IF accounts = {}
                 THEN [window EXCEPT !.clicks = @ + 1]
                 ELSE start_scan([window EXCEPT !.clicks = @ + 1])
    /\ UNCHANGED <<accounts, aggregations, scan, parsed, heap, dom, adds, answer, all,
                   fetch, scan_progress>>

\* main.py:46-51: the thread begins to iterate over the account dict
WorkerRun ==
    /\ window.worker = "running"
    /\ all.pc = "idle"
    /\ all' = [IdleAll EXCEPT !.pc = "loop", !.idx = 1, !.size = Cardinality(accounts)]
    /\ UNCHANGED <<accounts, aggregations, scan, parsed, heap, dom, adds, answer,
                   fetch, scan_progress, window>>

\* main.py:59-60: finished.emit(False, str(e))
emit_failure(w, err) ==
    [w EXCEPT !.worker = "finished", !.success = FALSE, !.message = err,
              !.emitted = @ + 1]

\* main.py:51-56 and 59-60: the loop takes the next account and calls
\* aggregate_account, which publishes or raises; the dict having changed size
\* raises as well
WorkerAggregate ==
    /\ window.worker = "running"
    /\ all.pc = "loop"
    /\ \/ /\ Cardinality(accounts) # all.size
          /\ window' = emit_failure(window, "RuntimeError")
          /\ all' = IdleAll
          /\ UNCHANGED aggregations
       \/ /\ Cardinality(accounts) = all.size
          /\ all.idx <= Len(AccountOrder)
          /\ \E err \in {"Exception", "RuntimeError"} :
                window' = emit_failure(window, err)
          /\ all' = IdleAll
          /\ UNCHANGED aggregations
       \/ /\ Cardinality(accounts) = all.size
          /\ all.idx <= Len(AccountOrder)
          /\ LET account_id == AccountOrder[all.idx]
             IN /\ \E messages \in Listings(account_id) :
                      \E details \in BatchResults(account_id, messages) :
                         aggregations' =
                            publish(aggregations, account_id,
                                    aggregate_account(account_id, messages, details))
                /\ all' = [all EXCEPT !.account_id = account_id, !.idx = @ + 1,
                                       !.invoked = Append(@, account_id)]
          /\ UNCHANGED window
    /\ UNCHANGED <<accounts, scan, parsed, heap, dom, adds, answer, fetch, scan_progress>>

\* main.py:58: the loop has run out; finished.emit(True, ...)
WorkerFinish ==
    /\ window.worker = "running"
    /\ all.pc = "loop"
    /\ Cardinality(accounts) = all.size
    /\ all.idx > Len(AccountOrder)
    /\ window' = [window EXCEPT !.worker = "finished", !.success = TRUE,
                                !.message = "Scan completed successfully!",
                                !.emitted = @ + 1]
    /\ all' = IdleAll
    /\ UNCHANGED <<accounts, aggregations, scan, parsed, heap, dom, adds, answer,
                   fetch, scan_progress>>

\* main.py:414-424: the window handles the worker's signal
on_scan_finished ==
    /\ window.worker = "finished"
    /\ window' = [window EXCEPT !.scan_btn = TRUE, !.worker = "none",
                                !.handled = @ + 1,
                                !.shown = IF window.success THEN update_results ELSE @]
    /\ UNCHANGED <<accounts, aggregations, scan, parsed, heap, dom, adds, answer, all,
                   fetch, scan_progress>>

\* main.py:377-386 with the removal confirmed: the account leaves the manager
\* and the account list is refreshed
RemoveAccountDesk(account_id) ==
    /\ account_id \in accounts
    /\ accounts' = accounts \ {account_id}
    /\ UNCHANGED <<aggregations, scan, parsed, heap, dom, adds, answer, all,
                   fetch, scan_progress, window>>

\* main.py:426-441: a change of view or filter fills the results table anew
SwitchView ==
    /\ window.shown # update_results
    /\ window' = [window EXCEPT !.shown = update_results]
    /\ UNCHANGED <<accounts, aggregations, scan, parsed, heap, dom, adds, answer, all,
                   fetch, scan_progress>>

\* the steps of the worker thread outside aggregate_account
WorkerStep == WorkerRun \/ WorkerFinish

\* the worker has a call of aggregate_account, or the failed iteration, to make
WorkerBusy ==
    /\ window.worker = "running"
    /\ all.pc = "loop"
    /\ Cardinality(accounts) # all.size \/ all.idx <= Len(AccountOrder)

NextDesk ==
    \/ ClickScan
    \/ WorkerStep
    \/ WorkerAggregate
    \/ on_scan_finished
    \/ \E account_id \in AccountIds : RemoveAccountDesk(account_id)
    \/ SwitchView

\* the worker thread keeps running (it takes its next step whenever it has one,
\* and no call of aggregate_account, WorkerAggregate's enabling condition, stays
\* pending for ever) and the event loop delivers the queued signal
\* (on_scan_finished's enabling condition does not stay true for ever)
SpecDesk ==
    /\ Init /\ [][NextDesk]_vars
    /\ WF_vars(WorkerStep)
    /\ []<>(~WorkerBusy)
    /\ []<>(window.worker # "finished")

\* C28: every account id with an entry in the aggregation store is a connected
\* account, and the ranked views list senders of connected accounts only:
\* once remove_account has returned the store holds nothing for the account.
C28_StoreOnlyConnected ==
    /\ Keys(aggregations) \subseteq accounts
    /\ update_results \subseteq accounts

\* C30: the scan button is disabled exactly while a worker is in flight:
\* start_scan disables it before the worker starts, every started worker emits
\* finished exactly once, on success and on failure, on_scan_finished enables
\* the button again; at most one worker runs at a time and the button is
\* enabled again after every scan.
C30_ScanControlGuardsWorker ==
    /\ [](/\ window.scan_btn <=> window.worker = "none"
          /\ window.started - window.handled <= 1
          /\ window.handled <= window.emitted /\ window.emitted <= window.started
          /\ window.worker = "none" => window.handled = window.started
          /\ window.worker = "running" => window.emitted = window.started - 1
          /\ window.worker = "finished" =>
                window.emitted = window.started /\ window.handled = window.started - 1
          /\ all.pc # "idle" => window.worker = "running")
    /\ [][window'.emitted # window.emitted =>
             /\ window'.emitted = window.emitted + 1
             /\ window.worker = "running" /\ window'.worker = "finished"]_vars
    /\ (~window.scan_btn ~> window.scan_btn)

\* a second scan in flight after the first one failed and was handled
C30_Witness ==
    /\ ~window.scan_btn
    /\ window.worker = "running"
    /\ window.started = 2
    /\ window.handled = 1
    /\ ~window.success
    /\ all.pc = "loop"

====
